---- MODULE Spec2Model ----
(***************************************************************************)
(* The chat endpoint of the taxi assistant: the per-session sticky-intent  *)
(* state machine of main.py (_decide_intent, chat_endpoint, the session    *)
(* store) and the router/booking flow of router_and_booking.py.            *)
(*                                                                         *)
(* A message is one of a fixed alphabet of concrete texts. What the code's *)
(* regular expressions and parsers answer on each text is tabulated below, *)
(* one operator per function of the source.                                *)
(***************************************************************************)
EXTENDS Integers, Sequences, FiniteSets, TLC

\* ---------------------------------------------------------------------------
\* Constants of the source
\* ---------------------------------------------------------------------------
INTENT_TRIP == "TripCostIntent"
INTENT_HOSPITAL == "HospitalIntent"
INTENT_PHARMACY == "OnDutyPharmacyIntent"
INTENT_INFO == "PatrasLlmAnswersIntent"
INTENT_SERVICES == "ServicesAndToursIntent"
BOOKING_INTENT == "BookingIntent"

FOLLOWUP_BUDGET_DEFAULT == 3

\* _push_context keeps the last 10 lines of the context buffer
CONTEXT_KEEP == 10

\* the classifier's confidence threshold 0.70, in hundredths
SCORE_MIN == 70

\* intents_order of _best_intent_from_triggers and of the loops of _decide_intent
IntentsOrder == <<INTENT_TRIP, INTENT_HOSPITAL, INTENT_PHARMACY, INTENT_SERVICES, INTENT_INFO>>

FiveIntents == {INTENT_TRIP, INTENT_HOSPITAL, INTENT_PHARMACY, INTENT_SERVICES, INTENT_INFO}

BOOKING_REQUIRED == <<"origin", "destination", "pickup_time", "name", "phone">>

\* a dictionary key that is not set (Python's None is the value "None")
Absent == "Absent"

\* ---------------------------------------------------------------------------
\* Tables: the source's text functions on the alphabet
\* ---------------------------------------------------------------------------
(* The alphabet of message texts. Each identifier stands for one concrete text;
   every table below lists the value the repository's own function gives on it.
     cancel       «άκυρο»
     nai          «ναι»
     ok           «ok»
     ok_gr        «οκ»
     sosta        «σωστά»
     akrivos      «ακριβώς»
     pharm        «ποιο φαρμακείο εφημερεύει;»
     paralia_t    «παραλία»
     paralia      «παραλια»
     tripq        «πόσο κοστίζει από Πάτρα μέχρι Αθήνα;»
     costpharm    «πόσο κοστίζει το φαρμακείο;»
     costpharm2   «πόσο κοστίζει το εφημερεύον φαρμακείο;»
     costboth     «πόσο κοστίζει το νοσοκομείο και το φαρμακείο;»
     hosp         «ποιο νοσοκομείο εφημερεύει;»
     tours        «εκδρομές»
     hello        «τι κάνεις»
     twocity      «Πάτρα Αθήνα»
     book         «θέλω κράτηση»
     addr         «Ζαΐμη 2»
     bags         «2 βαλίτσες»
     contact      «τηλέφωνο ραδιοταξι»
     diadromi     «ποσο παει η διαδρομη»
     asap         «άμεσα»
     phone        «6912345678»
     name         «Γιώργος»
     vague        «εκεί κοντά»
     avrio        «αύριο το πρωί»
     bookroute    «θέλω κράτηση από Ζαΐμη 2 μέχρι αεροδρόμιο»
     bookvague    «θέλω κράτηση από Πάτρα μέχρι Αθήνα»
     costtour     «πόσο κοστίζει η εκδρομή στους Δελφούς;»
     timi         «τιμη απο πατρα»
     nosrio       «Νοσοκομείο Ρίο»
     simera       «σήμερα το πρωί»
     methavrio    «μεθαύριο το πρωί»
     tw_twocity   «από Πάτρα μέχρι Αθήνα»
     tw_book      «από θέλω μέχρι κράτηση»
     tw_contact   «από τηλέφωνο μέχρι ραδιοταξι»
     tw_vague     «από εκεί μέχρι κοντά»
*)
AllTexts == {"cancel", "nai", "ok", "ok_gr", "sosta", "akrivos", "pharm", "paralia_t", "paralia", "tripq", "costpharm", "costpharm2", "costboth", "hosp", "tours", "hello", "twocity", "book", "addr", "bags", "contact", "diadromi", "asap", "phone", "name", "vague", "avrio", "bookroute", "bookvague", "costtour", "timi", "nosrio", "simera", "methavrio", "tw_twocity", "tw_book", "tw_contact", "tw_vague"}

\* is_contact_intent(t_norm): CONTACT_PAT.search
IsContactIntent(m) == m \in {"contact", "tw_contact"}

\* is_cancel_message(t): len(t) <= 16 and CANCEL_RE.match(t)
IsCancelMessage(m) == m \in {"cancel"}

\* CONFIRM_RE.search(t)
ConfirmRe(m) == m \in {"nai", "ok", "ok_gr", "sosta", "akrivos"}

\* _intent_trigger_hits(intent, t): the number of TRIGGERS[intent] patterns found in t;
\* TRIGGERS.get(intent, []) is empty for an intent without patterns (BookingIntent)
TriggerHitTable ==
    <<"OnDutyPharmacyIntent", "pharm">> :> 2 @@
    <<"PatrasLlmAnswersIntent", "paralia">> :> 1 @@
    <<"TripCostIntent", "tripq">> :> 2 @@
    <<"TripCostIntent", "costpharm">> :> 1 @@
    <<"OnDutyPharmacyIntent", "costpharm">> :> 1 @@
    <<"TripCostIntent", "costpharm2">> :> 1 @@
    <<"OnDutyPharmacyIntent", "costpharm2">> :> 2 @@
    <<"TripCostIntent", "costboth">> :> 1 @@
    <<"HospitalIntent", "costboth">> :> 1 @@
    <<"OnDutyPharmacyIntent", "costboth">> :> 1 @@
    <<"HospitalIntent", "hosp">> :> 1 @@
    <<"OnDutyPharmacyIntent", "hosp">> :> 1 @@
    <<"ServicesAndToursIntent", "tours">> :> 1 @@
    <<"TripCostIntent", "diadromi">> :> 1 @@
    <<"TripCostIntent", "bookroute">> :> 1 @@
    <<"TripCostIntent", "bookvague">> :> 1 @@
    <<"TripCostIntent", "costtour">> :> 1 @@
    <<"ServicesAndToursIntent", "costtour">> :> 2 @@
    <<"HospitalIntent", "nosrio">> :> 1 @@
    <<"TripCostIntent", "tw_twocity">> :> 1 @@
    <<"TripCostIntent", "tw_book">> :> 1 @@
    <<"TripCostIntent", "tw_contact">> :> 1 @@
    <<"TripCostIntent", "tw_vague">> :> 1

\* detect_area_for_pharmacy(text): canonical area or None
DetectAreaForPharmacy(m) ==
    CASE m = "paralia_t" -> "Paralia_Patron"
      [] m = "paralia" -> "Paralia_Patron"
      [] m = "tripq" -> "Patra"
      [] m = "twocity" -> "Patra"
      [] m = "bookvague" -> "Patra"
      [] m = "timi" -> "Patra"
      [] m = "nosrio" -> "Rio"
      [] m = "tw_twocity" -> "Patra"
      [] OTHER -> "None"

\* _extract_route_free_text(text): (origin, destination)
ExtractRouteFreeText(m) ==
    CASE m = "tripq" -> <<"Patra", "Athina">>
      [] m = "bookroute" -> <<"addr", "aerodromio">>
      [] m = "bookvague" -> <<"Patra", "Athina">>
      [] m = "tw_twocity" -> <<"Patra", "Athina">>
      [] m = "tw_book" -> <<"thelo", "kratisi">>
      [] m = "tw_contact" -> <<"tilefono", "radiotaxi">>
      [] m = "tw_vague" -> <<"ekei", "konta">>
      [] OTHER -> <<"None", "None">>

\* KM_QUERY_RE.search(t)
KmQueryRe(m) == m \in {}

\* _two_word_cities_to_trip(text): the rewritten text or None
TwoWordCitiesToTrip(m) ==
    CASE m = "twocity" -> "tw_twocity"
      [] m = "book" -> "tw_book"
      [] m = "contact" -> "tw_contact"
      [] m = "vague" -> "tw_vague"
      [] OTHER -> "None"

\* _extract_km_destination(text): the destination of a kilometres query, or None
ExtractKmDestination(m) == "None"

\* _price_query_to_trip_message(text, st): the dest it extracts from the text, or None when it returns None
PriceQueryDest(m) ==
    CASE m = "costpharm" -> "to_farmakeio"
      [] m = "costpharm2" -> "to_efimereyon_farmakeio"
      [] m = "costboth" -> "to_nosokomeio_kai_to_farmakeio"
      [] m = "costtour" -> "i_ekdromi_stoys_Delfoys"
      [] OTHER -> "None"

\* _partial_to_full_trip(text, st): the dest it extracts from the text, or None when it returns None
PartialDest(m) == "None"

\* any(x in t_norm for x in [ίδια, ιδια, διπλ, νυχτ, βράδ, βραδ, επιστροφ])
MemoryKeyword(m) == m \in {}

\* the text has a word for today: σήμερα, σημερα, today
TodayHint(m) == m \in {"simera"}

\* the text has a word for tomorrow (αύριο, αυριο, tomorrow) that is not part of μεθαύριο
TomorrowHint(m) == m \in {"avrio"}

\* the text has a word for the day after tomorrow: μεθαύριο, μεθαυριο
DayAfterHint(m) == m \in {"methavrio"}

\* "αυρ" in t_norm or "αύρ" in t_norm or "tomorrow" in t_norm
TomorrowWord(m) == m \in {"avrio", "methavrio"}

\* re.search(r"(τι\s+περιλαμ|δεν\s+περιλαμ)", t_norm)
ServicesIncludesRe(m) == m \in {}

\* re.search(r"(εκδρομ|tours?)", t_norm)
ServicesToursRe(m) == m \in {"tours", "costtour"}

\* the tour picked by the (δελφ|ολυμπ|ναυπακ|γαλαξ) branch of the services handler, or None
ServicesNamedTour(m) == "None"

\* services_reply(text, st): the value it stores in st.slots[last_tour], or None when it stores nothing
ServicesReplyTour(m) == "None"

\* is_trip_quote(text)
IsTripQuote(m) == m \in {"tripq", "costpharm", "costpharm2", "costboth", "costtour", "tw_contact"}

\* re.search(r"υπηρεσ|εκδρομ|tour|πακετ", t_norm)
FallbackServicesRe(m) == m \in {"tours", "costtour"}

\* is_pharmacy_message(text)
IsPharmacyMessage(m) == m \in {}

\* is_hospital_message(text)
IsHospitalMessage(m) == m \in {}

\* any(re.search(p, txt, re.IGNORECASE) for p in TRIPCOST_TRIGGERS)
TripcostTrigger(m) == m \in {"diadromi", "timi"}

\* the first INTENT_SWITCH_TRIGGERS entry with a matching pattern, or None
IntentSwitchTrigger(m) ==
    CASE m = "pharm" -> "PharmacyIntent"
      [] m = "costpharm" -> "PharmacyIntent"
      [] m = "costpharm2" -> "PharmacyIntent"
      [] m = "costboth" -> "HospitalIntent"
      [] m = "hosp" -> "HospitalIntent"
      [] m = "nosrio" -> "HospitalIntent"
      [] OTHER -> "None"

\* txt.lower() in {ναι, οκ, ok, μάλιστα, σωστά, yes, y}
IsShort(m) == m \in {"nai", "ok", "ok_gr", "sosta"}

\* any(re.search(p, txt, re.IGNORECASE) for p in BOOKING_TRIGGERS)
BookingTrigger(m) == m \in {"book", "bookroute", "bookvague", "tw_book"}

\* re.search(r"αποσκευ|βαλίτσ|βαλιτσ", txt, re.IGNORECASE)
BaggageRe(m) == m \in {"bags"}

\* re.search(r"(\d+)", txt): the luggage count, or None
BaggageCount(m) ==
    CASE m = "addr" -> "2"
      [] m = "bags" -> "2"
      [] m = "phone" -> "6912345678"
      [] m = "bookroute" -> "2"
      [] OTHER -> "None"

\* re.search(r"βαρι(ές|α)|heavy", txt, re.IGNORECASE)
BaggageHeavyRe(m) == m \in {}

\* re.search(r"\d", s): the text holds a digit
HasDigit(m) == m \in {"addr", "bags", "phone", "bookroute"}

\* POI_OK_PAT.search(s): the text holds a point-of-interest keyword
HasPoiKeyword(m) == m \in {"costboth", "hosp", "nosrio"}

\* is_precise_address(s) on the texts: a digit or a POI_OK_PAT keyword
IsPreciseAddressText(m) == m \in {"costboth", "hosp", "addr", "bags", "phone", "bookroute", "nosrio"}

\* parse_pickup_time(text): ASAP, HH:MM or the empty string
ParsePickupTime(m) ==
    CASE m = "asap" -> "ASAP"
      [] OTHER -> ""

\* normalize_phone(s): the phone number found, or None
NormalizePhone(m) ==
    CASE m = "phone" -> "6912345678"
      [] OTHER -> "None"

\* parse_date_hint(text): which day it returns, relative to datetime.now(), or None
ParseDateHint(m) ==
    CASE m = "cancel" -> "next_weekday_6"
      [] m = "paralia_t" -> "next_weekday_4"
      [] m = "paralia" -> "next_weekday_4"
      [] m = "avrio" -> "today_plus_1"
      [] m = "simera" -> "today"
      [] m = "methavrio" -> "today_plus_1"
      [] OTHER -> "None"

\* _extract_from_to(text): (origin, destination)
ExtractFromTo(m) ==
    CASE m = "tripq" -> <<"Patra", "Athina">>
      [] m = "bookroute" -> <<"addr", "aerodromio">>
      [] m = "bookvague" -> <<"Patra", "Athina">>
      [] m = "tw_twocity" -> <<"Patra", "Athina">>
      [] m = "tw_book" -> <<"thelo", "kratisi">>
      [] m = "tw_contact" -> <<"tilefono", "radiotaxi">>
      [] m = "tw_vague" -> <<"ekei", "konta">>
      [] OTHER -> <<"None", "None">>

\* is_precise_address(s) answering True for every place name
AnyPlacePrecise(p) == TRUE

\* is_precise_address(s) on the place names _extract_from_to returns
IsPreciseAddressPlace(p) == p \in {"addr"}

\* _intent_trigger_hits(intent, t)
IntentTriggerHits(intent, m) ==
    IF <<intent, m>> \in DOMAIN TriggerHitTable THEN TriggerHitTable[<<intent, m>>] ELSE 0

\* _match_triggers(t, intent): some pattern of the intent is found
MatchTriggers(m, intent) == IntentTriggerHits(intent, m) > 0

\* ---------------------------------------------------------------------------
\* SessionState and the store
\* ---------------------------------------------------------------------------
Sids == {"default"}

\* st.slots, one field per key the endpoint writes. cached_pharmacy is the set
\* of areas with a cached text: the key is set only together with an entry.
EmptySlots ==
    [area |-> Absent, cached_pharmacy |-> {}, which_day |-> Absent,
     last_origin |-> Absent, last_dest |-> Absent, last_trip_query |-> Absent,
     last_tour |-> Absent, last_trendy_ts |-> Absent]

\* st.pending_trip
EmptyPending ==
    [luggage_count |-> Absent, luggage_heavy |-> Absent,
     origin |-> Absent, destination |-> Absent]

\* st.booking_slots: BOOKING_REQUIRED and pickup_date
EmptyBooking ==
    [origin |-> Absent, destination |-> Absent, pickup_time |-> Absent,
     name |-> Absent, phone |-> Absent, pickup_date |-> Absent]

\* SessionState(intent=...): every other field at its default
NewSession(intent) ==
    [intent |-> intent, slots |-> EmptySlots, budget |-> FOLLOWUP_BUDGET_DEFAULT,
     last_offered |-> "None", pending_trip |-> EmptyPending,
     context_turns |-> <<>>, booking_slots |-> EmptyBooking]

\* an entry of the store without a session
NoEntry == [present |-> FALSE, st |-> NewSession("None")]

\* MemoryStore.set / _save_state
SaveState(S, sid, st) == [S EXCEPT ![sid] = [present |-> TRUE, st |-> st]]

\* MemoryStore.delete / _clear_state
ClearState(S, sid) == [S EXCEPT ![sid] = NoEntry]

\* _get_state: the store after the call (a missing session is created and stored)
GetStateStore(S, sid) ==
    IF S[sid].present THEN S ELSE SaveState(S, sid, NewSession("None"))

\* _get_state: the session it returns
GetState(S, sid) == IF S[sid].present THEN S[sid].st ELSE NewSession("None")

\* _dec_budget with "< 0" for "<= 0": a session with budget 0 stays stored
DecBudgetStrict(S, sid) ==
    LET st == GetState(S, sid)
        S1 == GetStateStore(S, sid)
        dec == [st EXCEPT !.budget = st.budget - 1]
    IN  IF dec.budget < 0 THEN ClearState(S1, sid) ELSE SaveState(S1, sid, dec)

\* _dec_budget without the clearing branch
DecBudgetKeeps(S, sid) ==
    LET st == GetState(S, sid)
    IN  SaveState(GetStateStore(S, sid), sid, [st EXCEPT !.budget = st.budget - 1])

\* _dec_budget
DecBudget(S, sid) ==
    LET st == GetState(S, sid)
        S1 == GetStateStore(S, sid)
        dec == [st EXCEPT !.budget = st.budget - 1]
    IN  IF dec.budget <= 0 THEN ClearState(S1, sid) ELSE SaveState(S1, sid, dec)

\* the first n elements of a list (lst[:n])
FirstN(seq, n) ==
    IF Len(seq) <= n THEN seq ELSE SubSeq(seq, 1, n)

\* the last n elements of a list (lst[-n:])
LastN(seq, n) ==
    IF Len(seq) <= n THEN seq ELSE SubSeq(seq, Len(seq) - n + 1, Len(seq))

\* _push_context(sid, user_text, reply_text) with the two lines it appends:
\* the last 10 lines are kept and the session is saved
PushContextLines(S, sid, u_line, a_line) ==
    LET st == GetState(S, sid)
        turns == LastN(st.context_turns \o <<u_line, a_line>>, CONTEXT_KEEP)
    IN  SaveState(GetStateStore(S, sid), sid, [st EXCEPT !.context_turns = turns])

\* _push_context in the endpoint's turns, the texts of the two lines left out:
\* a "U:" line and an "A:" line are appended, the last 10 kept
PushContext(S, sid) == PushContextLines(S, sid, "U", "A")

\* ---------------------------------------------------------------------------
\* Sticky intent: _decide_intent
\* ---------------------------------------------------------------------------
VARIABLES
    STORE,                  \* sid -> the stored session, if any
    RESET_ON_NO_MATCH,      \* environment setting, read once at start-up
    DRIFT_SWITCH_MIN_HITS,  \* environment setting, read once at start-up
    last,                   \* what the last request did (history, for the properties)
    pending,                \* sid -> the request suspended at its await, if any
    codes,                  \* the booking codes _booking_code has issued, in order
    clock,                  \* time.time(), and per sid the expiry time MemoryStore keeps
    sessions,               \* SessionManager.sessions: user -> its session, if any
    held,                   \* sid -> the session object a caller of STORE.get holds, if any
    REDIS                   \* a RedisStore given the calls STORE is given: sid -> session

vars ==
    <<STORE, RESET_ON_NO_MATCH, DRIFT_SWITCH_MIN_HITS, last, pending, codes, clock, sessions,
      held, REDIS>>

RECURSIVE BestFrom(_, _, _, _, _)
\* the loop of _best_intent_from_triggers from position i on
BestFrom(m, exclude, i, best_intent, best_hits) ==
    IF i > Len(IntentsOrder) THEN <<best_intent, best_hits>>
    ELSE LET it == IntentsOrder[i]
             hits == IntentTriggerHits(it, m)
         IN  IF exclude # "None" /\ it = exclude
                 THEN BestFrom(m, exclude, i + 1, best_intent, best_hits)
             ELSE IF hits > best_hits
                 THEN BestFrom(m, exclude, i + 1, it, hits)
             ELSE BestFrom(m, exclude, i + 1, best_intent, best_hits)

\* _best_intent_from_triggers without the "it == exclude" test
BestIgnoringExclude(m, exclude) == BestFrom(m, "None", 1, "None", 0)

\* _best_intent_from_triggers(text, exclude): (best_intent, best_hits)
BestIntentFromTriggers(m, exclude) == BestFrom(m, exclude, 1, "None", 0)

RECURSIVE FirstMatchFrom(_, _, _)
\* "for intent in (TRIP, HOSPITAL, PHARMACY, SERVICES, INFO): if intent != cur and
\* _match_triggers(t, intent)": the first such intent, or None
FirstMatchFrom(m, cur, i) ==
    IF i > Len(IntentsOrder) THEN "None"
    ELSE IF IntentsOrder[i] # cur /\ MatchTriggers(m, IntentsOrder[i]) THEN IntentsOrder[i]
    ELSE FirstMatchFrom(m, cur, i + 1)

\* the scan replaced by "the intent with the most hits"
FirstMatchByHits(m, cur) == BestIntentFromTriggers(m, cur)[1]

FirstMatch(m, cur) == FirstMatchFrom(m, cur, 1)

\* truthiness of a slot value: set, not None and not empty
Truthy(v) == v \notin {Absent, "None", ""}

\* _missing_slots(intent, text, st)
MissingSlots(intent, m, st) ==
    IF intent = INTENT_PHARMACY THEN
        IF Truthy(DetectAreaForPharmacy(m)) \/ Truthy(st.slots.area) THEN <<>> ELSE <<"area">>
    ELSE IF intent = INTENT_TRIP THEN
        IF KmQueryRe(m) THEN <<>>
        ELSE IF Truthy(ExtractRouteFreeText(m)[2]) THEN <<>> ELSE <<"destination">>
    ELSE <<>>

\* the drift test without "cur_hits == 0"
DriftSwitchAnyHits(cur_hits, cand_intent, cand_hits, intent) ==
    /\ cand_intent # "None"
    /\ cand_intent # intent
    /\ cand_hits >= DRIFT_SWITCH_MIN_HITS

\* the drift test with "cand_hits > DRIFT_SWITCH_MIN_HITS"
DriftSwitchAboveThreshold(cur_hits, cand_intent, cand_hits, intent) ==
    /\ cur_hits = 0
    /\ cand_intent # "None"
    /\ cand_intent # intent
    /\ cand_hits > DRIFT_SWITCH_MIN_HITS

\* the drift test left out: decide goes on to the later branches
DriftSwitchNever(cur_hits, cand_intent, cand_hits, intent) == FALSE

\* the drift test: the current intent has no hit, another intent has the most
\* hits and at least DRIFT_SWITCH_MIN_HITS of them
DriftSwitch(cur_hits, cand_intent, cand_hits, intent) ==
    /\ cur_hits = 0
    /\ cand_intent # "None"
    /\ cand_intent # intent
    /\ cand_hits >= DRIFT_SWITCH_MIN_HITS

\* the no-match test with the candidate test inverted
NoMatchInverted(cur_hits, cand_intent, cand_hits) ==
    cur_hits = 0 /\ cand_intent # "None" /\ cand_hits = 0

\* the no-match test: no hit for the current intent and none for any other
NoMatch(cur_hits, cand_intent, cand_hits) ==
    cur_hits = 0 /\ (cand_intent = "None" \/ cand_hits = 0)

\* the body of "if RESET_ON_NO_MATCH:" without the confirmation test
NoMatchOutcomeClears(S0, sid, st, m) ==
    [ret |-> "", store |-> ClearState(S0, sid), how |-> "reset"]

\* the body of "if RESET_ON_NO_MATCH:": a confirmation stays, anything else
\* clears the session
NoMatchOutcome(S0, sid, st, m) ==
    IF ConfirmRe(m)
        THEN [ret |-> st.intent, store |-> S0, how |-> "confirm"]
        ELSE [ret |-> "", store |-> ClearState(S0, sid), how |-> "reset"]

\* the adoption test without the confidence threshold
ClassifierAdoptsAnyScore(predicted_intent, score) == predicted_intent \in FiveIntents

\* the classifier's intent is adopted
ClassifierAdopts(predicted_intent, score) ==
    predicted_intent \in FiveIntents /\ score >= SCORE_MIN

\* _decide_intent(sid, text, predicted_intent, score) on store S: the intent it
\* returns, the store it leaves, and the return statement taken
DecideIntent(S, sid, m, predicted_intent, score) ==
    LET st == GetState(S, sid)
        S0 == GetStateStore(S, sid)
        cur_hits == IntentTriggerHits(st.intent, m)
        cand == BestIntentFromTriggers(m, "None")
        missing == MissingSlots(st.intent, m, st)
        Switch(intent, how) ==
            [ret |-> intent, store |-> SaveState(S0, sid, NewSession(intent)), how |-> how]
    IN  IF IsCancelMessage(m)
            THEN [ret |-> "", store |-> ClearState(S0, sid), how |-> "cancel"]
        ELSE IF st.intent \notin {"None", ""} THEN
            IF DriftSwitch(cur_hits, cand[1], cand[2], st.intent)
                THEN Switch(cand[1], "drift")
            ELSE IF NoMatch(cur_hits, cand[1], cand[2]) /\ RESET_ON_NO_MATCH
                THEN NoMatchOutcome(S0, sid, st, m)
            ELSE IF missing # <<>> /\ MatchTriggers(m, INTENT_TRIP)
                THEN Switch(INTENT_TRIP, "override")
            ELSE IF FirstMatch(m, st.intent) # "None"
                THEN Switch(FirstMatch(m, st.intent), "scan")
            ELSE [ret |-> st.intent, store |-> S0, how |-> "stay"]
        ELSE IF FirstMatch(m, "None") # "None"
            THEN Switch(FirstMatch(m, "None"), "trigger")
        ELSE IF ClassifierAdopts(predicted_intent, score)
            THEN Switch(predicted_intent, "classifier")
        ELSE [ret |-> "", store |-> S0, how |-> "none"]

\* ---------------------------------------------------------------------------
\* Router and booking flow (router_and_booking.py)
\* ---------------------------------------------------------------------------

\* llm_route(context, msg): its call ask_llm(prompt, system=..., temperature=0)
\* does not fit ask_llm(ctx, user_message), so the except branch answers
LlmRoute == [intent |-> "Clarify", slots |-> EmptyPending]

\* _reset_booking(st)
ResetBooking(st) ==
    [st EXCEPT !.intent = "None", !.booking_slots = EmptyBooking, !.last_offered = "None"]

\* baggage_policy_reply(st)
BaggagePolicyReply(st) ==
    [handled |-> TRUE, raised |-> FALSE, reply |-> "baggage_policy",
     st |-> [st EXCEPT !.last_offered = "baggage_cost_info"]]

\* run_trip_quote_with_luggage(st); trip_quote_nlp is an outside call that may raise
RunTripQuoteWithLuggage(st, ext) ==
    IF ~Truthy(st.pending_trip.origin) \/ ~Truthy(st.pending_trip.destination)
        THEN [handled |-> TRUE, raised |-> FALSE, reply |-> "ask_origin_destination", st |-> st]
    ELSE IF ext \in {"raise", "timeout"}
        THEN [handled |-> FALSE, raised |-> TRUE, reply |-> "error", st |-> st]
    ELSE [handled |-> TRUE, raised |-> FALSE, reply |-> "trip_quote_luggage",
          st |-> [st EXCEPT !.last_offered = "trip_quote"]]

\* ask_for_missing_slots(pending)
AskForMissingSlots(st) ==
    [handled |-> TRUE, raised |-> FALSE, reply |-> "ask_origin_destination", st |-> st]

RECURSIVE NextMissingFrom(_, _)
NextMissingFrom(slots, i) ==
    IF i > Len(BOOKING_REQUIRED) THEN "None"
    ELSE IF ~Truthy(slots[BOOKING_REQUIRED[i]]) THEN BOOKING_REQUIRED[i]
    ELSE NextMissingFrom(slots, i + 1)

\* next_missing_booking_slot over BOOKING_REQUIRED without "name"
NextMissingSkipsName(slots) ==
    IF NextMissingFrom(slots, 1) # "name" THEN NextMissingFrom(slots, 1)
    ELSE IF Truthy(slots.phone) THEN "None" ELSE "phone"

\* next_missing_booking_slot(slots)
NextMissingBookingSlot(slots) == NextMissingFrom(slots, 1)

\* is_precise_address(s) without the digit / POI_OK_PAT test
IsPreciseAddressAnyText(s) == Truthy(s)

\* is_precise_address(s) for a text of the alphabet or a place name taken from one
IsPreciseAddress(s) == IsPreciseAddressText(s) \/ IsPreciseAddressPlace(s)

\* booking_confirm(st): the summary is offered; a failing quote is swallowed
BookingConfirm(st) == [st EXCEPT !.last_offered = "booking_confirm"]

\* booking_start(st, reset, source_text); source_text "None" when not given
BookingStart(st, reset, source_text) ==
    LET s0 == IF reset THEN EmptyBooking ELSE st.booking_slots
        od == ExtractFromTo(source_text)
        dh == ParseDateHint(source_text)
        pt == ParsePickupTime(source_text)
        s1 == IF Truthy(od[1]) /\ IsPreciseAddress(od[1]) THEN [s0 EXCEPT !.origin = od[1]] ELSE s0
        s2 == IF Truthy(od[2]) /\ IsPreciseAddress(od[2]) THEN [s1 EXCEPT !.destination = od[2]] ELSE s1
        s3 == IF Truthy(dh) THEN [s2 EXCEPT !.pickup_date = dh] ELSE s2
        s4 == IF Truthy(pt) THEN [s3 EXCEPT !.pickup_time = pt] ELSE s3
    IN  [handled |-> TRUE, raised |-> FALSE, reply |-> "booking_prompt",
         st |-> [st EXCEPT !.intent = BOOKING_INTENT,
                           !.booking_slots = IF source_text # "None" THEN s4 ELSE s0]]

\* booking_collect(st, user_text)
BookingCollect(st, m) ==
    LET slots == st.booking_slots
        missing == NextMissingBookingSlot(slots)
        dh == ParseDateHint(m)
        s1 == IF Truthy(dh) THEN [slots EXCEPT !.pickup_date = dh] ELSE slots
        Reprompt(kind) ==
            [handled |-> TRUE, raised |-> FALSE, reply |-> kind,
             st |-> [st EXCEPT !.booking_slots = s1]]
        Filled(s2) ==
            IF NextMissingBookingSlot(s2) # "None"
                THEN [handled |-> TRUE, raised |-> FALSE, reply |-> "booking_prompt",
                      st |-> [st EXCEPT !.booking_slots = s2]]
            ELSE [handled |-> TRUE, raised |-> FALSE, reply |-> "booking_summary",
                  st |-> BookingConfirm([st EXCEPT !.booking_slots = s2])]
    IN  IF missing = "phone" THEN
            IF ~Truthy(NormalizePhone(m)) THEN Reprompt("ask_phone")
            ELSE Filled([s1 EXCEPT !.phone = NormalizePhone(m)])
        ELSE IF missing = "pickup_time" THEN
            IF ~Truthy(ParsePickupTime(m)) THEN Reprompt("ask_time")
            ELSE Filled([s1 EXCEPT !.pickup_time = ParsePickupTime(m)])
        ELSE IF missing \in {"origin", "destination"} THEN
            IF ~IsPreciseAddress(m) THEN Reprompt("refine_address")
            ELSE Filled([s1 EXCEPT ![missing] = m])
        ELSE IF missing = "name" THEN Filled([s1 EXCEPT !.name = m])
        ELSE Filled(s1)

\* booking_finalize(st) without "st.last_offered = None"
BookingFinalizeKeepsOffer(st, ext) ==
    [handled |-> TRUE, raised |-> FALSE, reply |-> "booking_final", st |-> st]

\* booking_finalize(st) letting a failure of an outside call through
BookingFinalizeRaises(st, ext) ==
    IF ext \in {"raise", "timeout"}
        THEN [handled |-> FALSE, raised |-> TRUE, reply |-> "error", st |-> st]
    ELSE [handled |-> TRUE, raised |-> FALSE, reply |-> "booking_final",
          st |-> [st EXCEPT !.last_offered = "None"]]

\* booking_finalize(st): geocoding (_resolve_coords, _geocode_fallback), the
\* create_booking call and notify_booking each sit in a try/except, so every
\* outcome ext of the outside calls ends in the summary with the booking code
\* and the offer closed
BookingFinalize(st, ext) ==
    [handled |-> TRUE, raised |-> FALSE, reply |-> "booking_final",
     st |-> [st EXCEPT !.last_offered = "None"]]

\* maybe_handle_followup_or_booking(st, user_text): whether it answers, and the
\* session object as it leaves it (changed also when it does not answer)
MaybeHandleFollowupOrBooking(st, m, ext) ==
    LET NotHandled(s) == [handled |-> FALSE, raised |-> FALSE, reply |-> "None", st |-> s]
        luggage1 == IF Truthy(BaggageCount(m))
                        THEN [st.pending_trip EXCEPT !.luggage_count = BaggageCount(m)]
                        ELSE st.pending_trip
        luggage2 == IF BaggageHeavyRe(m) THEN [luggage1 EXCEPT !.luggage_heavy = "True"]
                                         ELSE luggage1
    IN  IF TripcostTrigger(m) THEN NotHandled(ResetBooking(st))
        ELSE IF IntentSwitchTrigger(m) # "None"
            THEN NotHandled([ResetBooking(st) EXCEPT !.intent = IntentSwitchTrigger(m)])
        ELSE IF IsShort(m) /\ st.last_offered = "trip_quote"
            THEN RunTripQuoteWithLuggage(st, ext)
        ELSE IF IsShort(m) /\ st.last_offered = "booking_confirm"
            THEN BookingFinalize(st, ext)
        ELSE IF /\ IsShort(m) /\ st.last_offered = "baggage_cost_info"
                /\ Truthy(st.pending_trip.origin) /\ Truthy(st.pending_trip.destination)
            THEN RunTripQuoteWithLuggage(st, ext)
        ELSE IF BookingTrigger(m) /\ st.intent # BOOKING_INTENT
            THEN BookingStart(st, TRUE, m)
        ELSE IF /\ st.intent = BOOKING_INTENT
                /\ \E i \in 1..Len(BOOKING_REQUIRED) :
                       st.booking_slots[BOOKING_REQUIRED[i]] \in {Absent, "None", ""}
            THEN BookingCollect(st, m)
        ELSE IF BaggageRe(m)
            THEN BaggagePolicyReply([st EXCEPT !.pending_trip = luggage2])
        ELSE IF \/ LlmRoute.intent = "BaggageCost"
                \/ st.pending_trip.luggage_count # Absent
                \/ st.pending_trip.luggage_heavy # Absent
            THEN BaggagePolicyReply(st)
        ELSE IF LlmRoute.intent = "TripCost" THEN
            IF ~Truthy(st.pending_trip.origin) \/ ~Truthy(st.pending_trip.destination)
                THEN AskForMissingSlots(st)
                ELSE RunTripQuoteWithLuggage(st, ext)
        ELSE IF LlmRoute.intent = "Booking" THEN BookingStart(st, FALSE, "None")
        ELSE NotHandled(st)

\* ---------------------------------------------------------------------------
\* The /chat endpoint (chat_endpoint), branch by branch. Every branch gives the
\* store it leaves and the reply it sends.
\* ---------------------------------------------------------------------------

\* outcomes of a call that leaves the process (tool, HTTP client, agent runner)
ExtOutcomes == {"ok", "empty", "raise", "timeout"}

\* predict_intent(text): IntentClassifier has neither classify nor predict
PredictIntent(m) == <<"None", 0>>

\* "a or b" on optional strings
Or(a, b) == IF Truthy(a) THEN a ELSE b

\* _apply_location_aliases(s): the one pattern of LOCATION_ALIASES occurs in no
\* text of the alphabet, so the substitution leaves every string as it is
ApplyLocationAliases(s) == s

\* _km_query_to_trip_message(text)
KmQueryToTripMessage(text) ==
    IF Truthy(ExtractKmDestination(text))
        THEN "apo Patra mechri " \o ExtractKmDestination(text) ELSE "None"

\* _price_query_to_trip_message(text, st)
PriceQueryToTripMessage(text, st) ==
    IF Truthy(PriceQueryDest(text))
        THEN "apo " \o Or(st.slots.last_origin, "Patra") \o " mechri " \o PriceQueryDest(text)
        ELSE "None"

\* _partial_to_full_trip(text, st)
PartialToFullTrip(text, st) ==
    IF Truthy(PartialDest(text))
        THEN "apo " \o Or(st.slots.last_origin, "Patra") \o " mechri " \o PartialDest(text)
        ELSE "None"

\* inject_trendy_phrase(reply, st=st, ...): when a phrase is added the session
\* object gets the time stamp
InjectTrendyPhrase(st, phrase) ==
    IF phrase THEN [st EXCEPT !.slots.last_trendy_ts = "now"] ELSE st

\* the except clauses with the sessions of the store rolled back
ErrorReplyRollsBack(S, ext) ==
    [store |-> [sid \in Sids |-> NoEntry],
     path |-> IF ext = "timeout" THEN "error_504" ELSE "error_500",
     area |-> "None", tool_input |-> "None", decFrom |-> 0]

\* the except clauses at the end of chat_endpoint: 504 on a timeout, 500 otherwise
ErrorReply(S, ext) ==
    [store |-> S, path |-> IF ext = "timeout" THEN "error_504" ELSE "error_500",
     area |-> "None", tool_input |-> "None", decFrom |-> 0]

\* the reply is sent: _push_context, then return
Replied(S, sid, path) ==
    [store |-> PushContext(S, sid), path |-> path, area |-> "None", tool_input |-> "None",
     decFrom |-> 0]

\* _dec_budget, then the reply; decFrom is the budget _dec_budget found
Spent(S, sid, path) ==
    [Replied(DecBudget(S, sid), sid, path) EXCEPT !.decFrom = GetState(S, sid).budget]

\* inject_trendy_phrase(reply, st=_get_state(sid), ...) on the MemoryStore:
\* MemoryStore.get builds the session object around the stored dict, so the
\* time stamp written into st.slots is written into the store; a session
\* _get_state had to create is a private object (MemoryStore.set stores a copy)
InjectStored(S, sid, phrase) ==
    IF phrase /\ S[sid].present
        THEN [S EXCEPT ![sid].st.slots.last_trendy_ts = "now"]
        ELSE GetStateStore(S, sid)

\* the phrase on a fresh _get_state, then the reply
RepliedInjected(S, sid, path, phrase) == Replied(InjectStored(S, sid, phrase), sid, path)

\* _dec_budget, the phrase on a fresh _get_state, then the reply
SpentInjected(S, sid, path, phrase) ==
    [RepliedInjected(DecBudget(S, sid), sid, path, phrase)
         EXCEPT !.decFrom = GetState(S, sid).budget]

\* the replies, when every outside call succeeds, of the branches that make an
\* outside call (tool, HTTP client, agent runner, booking back end)
PathsWithOutsideCall ==
    {"quick_confirm", "pharmacy_found", "hospital_found", "trip_quote", "info",
     "fallback_trip", "fallback_agent", "trip_quote_luggage", "booking_final"}

\* the replies whose session keeps the time stamp of inject_trendy_phrase
PathsWithPhrase ==
    {"services_tours", "quick_confirm", "hospital_found", "trip_quote", "info",
     "fallback_trip", "fallback_agent"}

\* the quick path: a confirmation re-runs the last trip estimate
QuickConfirm(S, sid, st, ext, phrase) ==
    IF ext \in {"raise", "timeout"} THEN ErrorReply(S, ext)
    ELSE [SpentInjected(S, sid, "quick_confirm", phrase)
              EXCEPT !.tool_input = ApplyLocationAliases(st.slots.last_trip_query)]

\* --- PHARMACY ---
PharmacyBranch(S, sid, text, ext) ==
    LET st == GetState(S, sid)
        S0 == GetStateStore(S, sid)
        area == Or(DetectAreaForPharmacy(text), st.slots.area)
        cached == IF area \in st.slots.cached_pharmacy
                      THEN st.slots.cached_pharmacy
                      ELSE st.slots.cached_pharmacy \cup {area}
        found == [st EXCEPT !.slots.cached_pharmacy = cached, !.slots.area = area]
    IN  IF ~Truthy(area)
            THEN Replied(SaveState(S0, sid, [st EXCEPT !.slots.area = "None"]), sid,
                         "pharmacy_ask_area")
        ELSE IF ext \in {"raise", "timeout"}
            THEN [Replied(S0, sid, "pharmacy_error") EXCEPT !.area = area]
        ELSE IF ext = "empty"
            THEN [Replied(S0, sid, "pharmacy_none") EXCEPT !.area = area]
        ELSE [Spent(SaveState(S0, sid, found), sid, "pharmacy_found")
                  EXCEPT !.area = area]

\* --- HOSPITAL ---
HospitalBranch(S, sid, m, ext, phrase) ==
    LET st == GetState(S, sid)
        which_day == IF TomorrowWord(m) THEN "avrio" ELSE "simera"
        S1 == SaveState(GetStateStore(S, sid), sid, [st EXCEPT !.slots.which_day = which_day])
    IN  IF ext \in {"raise", "timeout"}
            THEN Replied(S1, sid, "hospital_error")
        ELSE [SpentInjected(S1, sid, "hospital_found", phrase)
                  EXCEPT !.tool_input = "nosokomeia " \o which_day]

\* --- TRIP COST ---; m is the message as sent, text the message after the
\* two-word shortcut
TripBranch(S, sid, m, text, ext, phrase) ==
    LET st == GetState(S, sid)
        S0 == GetStateStore(S, sid)
        km_msg == KmQueryToTripMessage(text)
        price_msg == PriceQueryToTripMessage(text, st)
        partial_msg == PartialToFullTrip(text, st)
        twoword_msg == TwoWordCitiesToTrip(text)
        extract == /\ ~Truthy(km_msg) /\ ~Truthy(partial_msg)
                   /\ ~Truthy(price_msg) /\ ~Truthy(twoword_msg)
        od == ExtractRouteFreeText(text)
        route == extract /\ Truthy(od[1]) /\ Truthy(od[2])
        use_memory == /\ extract /\ ~route /\ ~Truthy(od[2]) /\ MemoryKeyword(m)
                      /\ Truthy(st.slots.last_origin) /\ Truthy(st.slots.last_dest)
        st1 == IF route THEN [st EXCEPT !.slots.last_origin = od[1], !.slots.last_dest = od[2]]
                        ELSE st
        norm_msg == IF route THEN "apo " \o od[1] \o " mechri " \o od[2] \o " " \o text
                             ELSE "None"
        plain == IF use_memory
                     THEN "apo " \o st.slots.last_origin \o " mechri " \o st.slots.last_dest
                              \o " " \o text
                     ELSE text
        tool_input == ApplyLocationAliases(
            Or(km_msg, Or(norm_msg, Or(partial_msg, Or(twoword_msg, Or(price_msg, plain))))))
        S1 == SaveState(S0, sid, [st1 EXCEPT !.slots.last_trip_query = tool_input])
    IN  IF ext \in {"raise", "timeout"} THEN [ErrorReply(S1, ext) EXCEPT !.tool_input = tool_input]
        ELSE [SpentInjected(S1, sid, "trip_quote", phrase) EXCEPT !.tool_input = tool_input]

\* a tour stored in last_tour is found again in TOUR_PACKAGES: it was stored
\* from a package's code or title
TourKnown(v) == Truthy(v)

\* services_reply(text, st): may store last_tour in the session object
ServicesReply(st, text) ==
    IF Truthy(ServicesReplyTour(text))
        THEN [st EXCEPT !.slots.last_tour = ServicesReplyTour(text)] ELSE st

\* --- SERVICES / TOURS ---: the budget is decremented first
ServicesBranch(S, sid, m, text, phrase) ==
    LET S1 == DecBudget(S, sid)
        st == GetState(S1, sid)
        S2 == GetStateStore(S1, sid)
        named == [st EXCEPT !.slots.last_tour = ServicesNamedTour(text)]
        Saved(s, path) ==
            [Replied(SaveState(S2, sid, s), sid, path) EXCEPT !.decFrom = GetState(S, sid).budget]
    IN  IF ServicesIncludesRe(m) /\ Truthy(st.slots.last_tour) /\ TourKnown(st.slots.last_tour)
            THEN Saved(st, "services_includes")
        ELSE IF ServicesToursRe(m)
            THEN Saved(InjectTrendyPhrase(st, phrase), "services_tours")
        ELSE IF Truthy(ServicesNamedTour(text))
            THEN Saved(named, "services_tour_card")
        ELSE Saved(ServicesReply(st, text), "services_reply")

\* --- INFO ---
InfoBranch(S, sid, text, ext, phrase) ==
    IF ext \in {"raise", "timeout"} THEN [ErrorReply(S, ext) EXCEPT !.tool_input = text]
    ELSE [SpentInjected(S, sid, "info", phrase) EXCEPT !.tool_input = text]

\* the tool the general fallback picks before the two-word test
FallbackTool(m, predicted_intent, score) ==
    IF predicted_intent \in (FiveIntents \cup {"ContactInfoIntent"}) /\ score >= SCORE_MIN
        THEN predicted_intent
    ELSE IF IsContactIntent(m) THEN "ContactInfoIntent"
    ELSE IF IsTripQuote(m) THEN INTENT_TRIP
    ELSE IF FallbackServicesRe(m) THEN INTENT_SERVICES
    ELSE "None"

\* the trip quote of the general fallback: no budget is spent
FallbackTrip(S, sid, text, ext, phrase) ==
    LET st == GetState(S, sid)
        S0 == GetStateStore(S, sid)
        km_msg == KmQueryToTripMessage(text)
        price_msg == PriceQueryToTripMessage(text, st)
        partial_msg == PartialToFullTrip(text, st)
        twoword_msg == TwoWordCitiesToTrip(text)
        od == ExtractRouteFreeText(text)
        route == ~Truthy(km_msg) /\ ~Truthy(twoword_msg) /\ Truthy(od[1]) /\ Truthy(od[2])
        st1 == IF route THEN [st EXCEPT !.slots.last_origin = od[1], !.slots.last_dest = od[2]]
                        ELSE st
        norm_msg == IF route THEN "apo " \o od[1] \o " mechri " \o od[2] \o " " \o text
                             ELSE "None"
        tool_input == ApplyLocationAliases(
            Or(km_msg, Or(norm_msg, Or(partial_msg, Or(twoword_msg, Or(price_msg, text))))))
        S1 == SaveState(S0, sid, [st1 EXCEPT !.slots.last_trip_query = tool_input])
    IN  IF ext \in {"raise", "timeout"} THEN [ErrorReply(S1, ext) EXCEPT !.tool_input = tool_input]
        ELSE [RepliedInjected(S1, sid, "fallback_trip", phrase) EXCEPT !.tool_input = tool_input]

\* 3) the general fallback
FallbackBranch(S, sid, m, predicted_intent, score, ext, phrase) ==
    LET first == FallbackTool(m, predicted_intent, score)
        tw == TwoWordCitiesToTrip(m)
        twoword == /\ first = "None" /\ Truthy(tw)
                   /\ ~IsPharmacyMessage(m) /\ ~IsHospitalMessage(m)
        desired_tool == IF twoword THEN INTENT_TRIP ELSE first
        text == IF twoword THEN tw ELSE m
        S1 == DecBudget(S, sid)
        st == GetState(S1, sid)
    IN  IF desired_tool = "ContactInfoIntent" THEN Replied(S, sid, "fallback_contact")
        ELSE IF desired_tool = INTENT_SERVICES
            THEN [Replied(SaveState(GetStateStore(S1, sid), sid, ServicesReply(st, text)), sid,
                          "fallback_services") EXCEPT !.decFrom = GetState(S, sid).budget]
        ELSE IF desired_tool = INTENT_TRIP THEN FallbackTrip(S, sid, text, ext, phrase)
        ELSE IF ext \in {"raise", "timeout"} THEN [ErrorReply(S, ext) EXCEPT !.tool_input = text]
        ELSE [RepliedInjected(S, sid, "fallback_agent", phrase) EXCEPT !.tool_input = text]

\* the quick-confirm test of chat_endpoint, on the session object the router left
QuickPath(st, m) ==
    /\ ConfirmRe(m)
    /\ st.intent = INTENT_TRIP
    /\ Truthy(st.slots.last_trip_query)
    /\ st.last_offered \notin {"booking_confirm", "trip_quote", "baggage_cost_info"}

\* "if not intent: tw = _two_word_cities_to_trip(text); if tw:" after _decide_intent
TwoCityShortcut(intent, m) == intent = "" /\ Truthy(TwoWordCitiesToTrip(m))

\* the session has no slot of an earlier topic and the full follow-up budget
CleanStart(st) == st.slots = EmptySlots /\ st.budget = FOLLOWUP_BUDGET_DEFAULT

\* what a turn records when _decide_intent did not run
NoDecide ==
    [decided |-> FALSE, how |-> "None", ret |-> "None", decSame |-> FALSE,
     decCleared |-> FALSE, decFresh |-> FALSE, adopt |-> "None", adoptClean |-> FALSE]

\* what a turn records of _decide_intent: S0 is the store it was called on, dec
\* its result, S1 the store after the two-city shortcut
Decided(S0, sid, dec, shortcut, S1) ==
    [decided |-> TRUE, how |-> dec.how, ret |-> dec.ret,
     decSame |-> dec.store = S0,
     decCleared |-> ~dec.store[sid].present,
     decFresh |-> dec.store[sid] = [present |-> TRUE, st |-> NewSession(dec.ret)],
     adopt |-> IF shortcut THEN "twocity"
               ELSE IF dec.how \in {"drift", "override", "scan", "trigger", "classifier"}
                   THEN dec.how ELSE "None",
     adoptClean |-> IF shortcut
                        THEN CleanStart([GetState(S1, sid) EXCEPT !.slots.last_trip_query = Absent])
                        ELSE CleanStart(GetState(S1, sid))]

\* the outcome of a turn on store S: the store branch result r leaves, and the
\* record of the turn
Out(S, sid, m, r, d) ==
    [store |-> r.store,
     last |-> [msg |-> m, path |-> r.path, area |-> r.area,
               tool_input |-> r.tool_input, decFrom |-> r.decFrom,
               predicted |-> PredictIntent(m),
               preIntent |-> GetState(S, sid).intent, preStored |-> S[sid].present] @@ d]

\* chat_endpoint from the cancellation reply on: "2) Intent-specific" and
\* "3) the general fallback", on the store S1 with the intent and the text the
\* two-city shortcut left
ChatDispatch(S, sid, m, ext, phrase, dec, S1, intent, text, d) ==
    IF dec.ret = "" /\ IsCancelMessage(m)
        THEN Out(S, sid, m, Replied(dec.store, sid, "cancel_ack"), d)
    ELSE IF intent = INTENT_PHARMACY
        THEN Out(S, sid, m, PharmacyBranch(S1, sid, text, ext), d)
    ELSE IF intent = INTENT_HOSPITAL
        THEN Out(S, sid, m, HospitalBranch(S1, sid, m, ext, phrase), d)
    ELSE IF intent = INTENT_TRIP
        THEN Out(S, sid, m, TripBranch(S1, sid, m, text, ext, phrase), d)
    ELSE IF intent = INTENT_SERVICES
        THEN Out(S, sid, m, ServicesBranch(S1, sid, m, text, phrase), d)
    ELSE IF intent = INTENT_INFO
        THEN Out(S, sid, m, InfoBranch(S1, sid, text, ext, phrase), d)
    ELSE Out(S, sid, m,
             FallbackBranch(S1, sid, text, PredictIntent(m)[1], PredictIntent(m)[2], ext,
                            phrase), d)

\* chat_endpoint after _decide_intent returned dec: the two-city shortcut saves
\* the session object of the start of the turn, as the router left it
ChatShortcut(S, sid, m, ext, phrase, S0, routed, dec, shortcut, S1) ==
    ChatDispatch(S, sid, m, ext, phrase, dec, S1,
                 IF shortcut THEN INTENT_TRIP ELSE dec.ret,
                 IF shortcut THEN TwoWordCitiesToTrip(m) ELSE m,
                 Decided(S0, sid, dec, shortcut, S1))

ChatDecided(S, sid, m, ext, phrase, S0, routed, dec) ==
    ChatShortcut(S, sid, m, ext, phrase, S0, routed, dec, TwoCityShortcut(dec.ret, m),
                 IF TwoCityShortcut(dec.ret, m)
                     THEN SaveState(dec.store, sid,
                              [routed.st EXCEPT !.intent = INTENT_TRIP,
                                                !.slots.last_trip_query = TwoWordCitiesToTrip(m)])
                     ELSE dec.store)

\* chat_endpoint after maybe_handle_followup_or_booking returned: S0 is the
\* store after the first _get_state, st the session object it gave
ChatRouted(S, sid, m, ext, phrase, S0, st, routed) ==
    IF IsContactIntent(m) THEN Out(S, sid, m, Replied(S0, sid, "contact"), NoDecide)
    ELSE IF routed.raised THEN Out(S, sid, m, ErrorReply(S0, ext), NoDecide)
    ELSE IF routed.handled
        THEN Out(S, sid, m, Replied(SaveState(S0, sid, routed.st), sid, routed.reply),
                 [NoDecide EXCEPT
                    !.adopt = IF routed.st.intent = BOOKING_INTENT /\ st.intent # BOOKING_INTENT
                                  THEN "booking_start" ELSE "None",
                    !.adoptClean = CleanStart(routed.st)])
    ELSE IF QuickPath(routed.st, m)
        THEN Out(S, sid, m, QuickConfirm(S0, sid, routed.st, ext, phrase), NoDecide)
    ELSE ChatDecided(S, sid, m, ext, phrase, S0, routed,
                     DecideIntent(S0, sid, m, PredictIntent(m)[1], PredictIntent(m)[2]))

\* chat_endpoint on store S: the store it leaves, the reply, and what happened
\* on the way (whether _decide_intent ran, what it returned, what it did to the
\* store, which step adopted an intent)
ChatEndpoint(S, sid, m, ext, phrase) ==
    ChatRouted(S, sid, m, ext, phrase, GetStateStore(S, sid), GetState(S, sid),
               MaybeHandleFollowupOrBooking(GetState(S, sid), m, ext))

\* ---------------------------------------------------------------------------
\* The state machine
\* ---------------------------------------------------------------------------

\* the messages users send: the texts of the alphabet that are not made by the
\* two-word rewriting
Msgs == {"cancel", "nai", "akrivos", "pharm", "paralia_t", "paralia", "tripq", "costpharm2",
         "hosp", "tours", "hello", "twocity", "book", "bags", "contact", "diadromi"}

NoLast ==
    [msg |-> "None", path |-> "None", area |-> "None", tool_input |-> "None",
     decFrom |-> 0, predicted |-> <<"None", 0>>,
     preIntent |-> "None", preStored |-> FALSE,
     decided |-> FALSE, how |-> "None", ret |-> "None", decSame |-> FALSE,
     decCleared |-> FALSE, decFresh |-> FALSE, adopt |-> "None", adoptClean |-> FALSE]

\* the clock at start-up: MemoryStore._exp is empty (0 stands for no entry)
NoClock == [now |-> 1, exp |-> [sid \in Sids |-> 0], written |-> [sid \in Sids |-> 0]]

\* no caller holds a session object of the session
NoHeld == [has |-> FALSE, memory |-> NewSession("None"), redis |-> NewSession("None"),
           shared |-> FALSE]

\* the users of the SessionManager
Users == {"user1"}

\* the intents and slot names the calls of the SessionManager are made with
ManagerIntents == {INTENT_TRIP, INTENT_PHARMACY}

ManagerSlots == {"origin", "destination", "area"}

\* sess['slots'] == {}: no intent has a stored value (a missing key and an
\* empty dict are read alike, through sess['slots'].get(intent, {}))
NoSlots == [it \in ManagerIntents |-> [s \in ManagerSlots |-> Absent]]

\* SessionManager.__init__: self.sessions = {}
NoSession == [present |-> FALSE, active_intent |-> "None", slots |-> NoSlots,
              history |-> <<>>, last_used |-> 0]

NoSessions == [u \in Users |-> NoSession]

\* no request of the session is suspended at "await _run_tool_with_timeout"
NoPending == [active |-> FALSE, turn |-> NoLast, saved |-> NoEntry]

Init ==
    /\ STORE = [sid \in Sids |-> NoEntry]
    /\ RESET_ON_NO_MATCH \in BOOLEAN
    /\ DRIFT_SWITCH_MIN_HITS \in {1, 2}
    /\ last = NoLast
    /\ pending = [sid \in Sids |-> NoPending]
    /\ codes = <<>>
    /\ clock = NoClock
    /\ sessions = NoSessions
    /\ held = [sid \in Sids |-> NoHeld]
    /\ REDIS = [sid \in Sids |-> NoEntry]

\* the request is answered with outcome r of chat_endpoint
ChatDone(r) ==
    /\ STORE' = r.store
    /\ last' = r.last
    /\ UNCHANGED <<RESET_ON_NO_MATCH, DRIFT_SWITCH_MIN_HITS, pending, codes, clock, sessions,
                 held, REDIS>>

\* the request whose reply is path0 when every outside call succeeds: the
\* outcome of an outside call and the choice of inject_trendy_phrase are drawn
\* only in the branches that consult them
ChatWith(sid, m, path0) ==
    \E ext \in (IF path0 \in PathsWithOutsideCall THEN ExtOutcomes ELSE {"ok"}),
       phrase \in (IF path0 \in PathsWithPhrase THEN BOOLEAN ELSE {FALSE}) :
        ChatDone(ChatEndpoint(STORE, sid, m, ext, phrase))

\* POST /chat with message m
Chat(sid, m) == ChatWith(sid, m, ChatEndpoint(STORE, sid, m, "ok", FALSE).last.path)

\* the session's TTL passes: MemoryStore.get drops the entry on the next read
Expire(sid) ==
    /\ STORE[sid].present
    /\ STORE' = ClearState(STORE, sid)
    /\ last' = NoLast
    /\ UNCHANGED <<RESET_ON_NO_MATCH, DRIFT_SWITCH_MIN_HITS, pending, codes, clock, sessions,
                 held, REDIS>>

Next ==
    \/ \E sid \in Sids, m \in Msgs : Chat(sid, m)
    \/ \E sid \in Sids : Expire(sid)

Spec == Init /\ [][Next]_vars

\* ---------------------------------------------------------------------------
\* _decide_intent called directly, with every classifier output
\* ---------------------------------------------------------------------------

\* classifier outputs: no prediction, known intents, an intent outside the five;
\* confidence in hundredths, on both sides of the threshold
Predictions == {"None", INTENT_TRIP, INTENT_INFO, "ContactInfoIntent"}

Scores == {0, 69, 70, 100}

\* the texts and classifier outputs of the direct calls
DecideTexts == {"cancel", "nai", "hello", "pharm", "paralia", "costpharm", "costpharm2", "costtour",
                "hosp", "tours", "tripq"}

DecidePredictions == {<<"None", 0>>, <<INTENT_TRIP, 69>>, <<INTENT_TRIP, 70>>,
                      <<INTENT_INFO, 100>>, <<"ContactInfoIntent", 100>>}

\* _decide_intent(sid, m, p, s) on the store
DecideCall(sid, m, p, s) ==
    LET S0 == GetStateStore(STORE, sid)
        st == GetState(STORE, sid)
        dec == DecideIntent(S0, sid, m, p, s)
    IN  /\ STORE' = dec.store
        /\ last' = [NoLast EXCEPT
                      !.msg = m, !.path = "decide_only", !.predicted = <<p, s>>,
                      !.preIntent = st.intent, !.preStored = STORE[sid].present,
                      !.decided = TRUE, !.how = dec.how, !.ret = dec.ret,
                      !.decSame = (dec.store = S0),
                      !.decCleared = ~dec.store[sid].present,
                      !.decFresh = (dec.store[sid] = [present |-> TRUE, st |-> NewSession(dec.ret)]),
                      !.adopt = IF dec.how \in {"drift", "override", "scan", "trigger", "classifier"}
                                    THEN dec.how ELSE "None",
                      !.adoptClean = CleanStart(GetState(dec.store, sid))]
        /\ UNCHANGED <<RESET_ON_NO_MATCH, DRIFT_SWITCH_MIN_HITS, pending, codes, clock, sessions,
                 held, REDIS>>

NextDecide ==
    \E sid \in Sids, m \in DecideTexts, ps \in DecidePredictions :
        DecideCall(sid, m, ps[1], ps[2])

SpecDecide == Init /\ [][NextDecide]_vars

\* ---------------------------------------------------------------------------
\* Properties
\* ---------------------------------------------------------------------------

\* the listed fields of a freshly created session
FreshListed(st) ==
    /\ st.intent = "None"
    /\ st.slots = EmptySlots
    /\ st.booking_slots = EmptyBooking
    /\ st.budget = FOLLOWUP_BUDGET_DEFAULT
    /\ st.last_offered = "None"

\* _decide_intent on the current store, as the endpoint calls it
DecideNow(sid, m) ==
    DecideIntent(GetStateStore(STORE, sid), sid, m, PredictIntent(m)[1], PredictIntent(m)[2])

\* an intent is active in the session of sid
Active(sid) == GetState(STORE, sid).intent # "None"

\* no intent has a trigger hit on m
ZeroHits(m) == \A I \in FiveIntents : IntentTriggerHits(I, m) = 0

\* position i of the priority order holds an intent other than I with a hit on m
OtherHitAt(m, I, i) == IntentsOrder[i] # I /\ IntentTriggerHits(IntentsOrder[i], m) >= 1

\* the first intent in priority order, other than I, with a hit on m
FirstOtherWithHit(m, I) ==
    IF \E i \in 1..Len(IntentsOrder) : OtherHitAt(m, I, i)
        THEN IntentsOrder[CHOOSE i \in 1..Len(IntentsOrder) :
                 OtherHitAt(m, I, i) /\ \A j \in 1..(i - 1) : ~OtherHitAt(m, I, j)]
        ELSE "None"

\* C1: after a turn whose message is a cancellation phrase the persisted session
\* equals a fresh default one (no intent, empty slots and booking_slots, full
\* budget, no last_offered) and the reply is the short acknowledgment.
C1_CancelLeavesFreshSession ==
    \A sid \in Sids :
        IsCancelMessage(last.msg) =>
            FreshListed(GetState(STORE, sid)) /\ last.path = "cancel_ack"

\* texts that are nothing but the name of an area
AreaOnlyTexts == {"paralia_t", "paralia"}

\* C2: when the session is on Pharmacy and the last reply asked for the area, a
\* message that is only an area name (no Pharmacy trigger hit, resolvable to a
\* canonical area) has the pharmacy lookup dispatched with that area and leaves
\* the session on Pharmacy.
C2_AreaFollowUpDispatchesPharmacy ==
    [][\A sid \in Sids :
        ( /\ last.path = "pharmacy_ask_area"
          /\ GetState(STORE, sid).intent = INTENT_PHARMACY
          /\ last'.msg \in AreaOnlyTexts
          /\ IntentTriggerHits(INTENT_PHARMACY, last'.msg) = 0
          /\ Truthy(DetectAreaForPharmacy(last'.msg)) )
        => ( /\ last'.path \in {"pharmacy_found", "pharmacy_none", "pharmacy_error"}
             /\ last'.area = DetectAreaForPharmacy(last'.msg)
             /\ GetState(STORE', sid).intent = INTENT_PHARMACY )]_vars

\* C3 as stated: with an active intent I, decide switches to another intent J
\* only when hits(I) = 0 and hits(J) >= 1.
C3_SwitchOnlyWithoutCurrentHits ==
    \A sid \in Sids, m \in AllTexts :
        LET I == GetState(STORE, sid).intent
            J == DecideNow(sid, m).ret
        IN  (Active(sid) /\ J \notin {I, ""}) =>
                (IntentTriggerHits(I, m) = 0 /\ IntentTriggerHits(J, m) >= 1)

\* C3, amended: a switch from I to J needs hits(J) >= 1. hits(I) >= 1 holds back
\* only the drift step: decide then returns the first intent in priority order,
\* other than I, that has a hit (I itself when there is none), except that
\* TripCost with its destination missing stays TripCost.
C3_SwitchNeedsCandidateHit ==
    \A sid \in Sids, m \in AllTexts :
        LET st == GetState(STORE, sid)
            I == st.intent
            J == DecideNow(sid, m).ret
        IN  Active(sid) =>
              /\ J \notin {I, ""} => IntentTriggerHits(J, m) >= 1
              /\ IntentTriggerHits(I, m) >= 1 =>
                    J = IF I = INTENT_TRIP /\ MissingSlots(I, m, st) # <<>> THEN INTENT_TRIP
                        ELSE IF FirstOtherWithHit(m, I) # "None" THEN FirstOtherWithHit(m, I)
                        ELSE I

\* a turn in which decide left an intent that had a hit on the message
C3_Witness ==
    /\ last.decided
    /\ last.preIntent # "None"
    /\ IntentTriggerHits(last.preIntent, last.msg) >= 1
    /\ last.ret \notin {last.preIntent, ""}

\* the confirmation words of the claim: ναι, ok, οκ, σωστά, ακριβώς
ConfirmWords == {"nai", "ok", "ok_gr", "sosta", "akrivos"}

\* C4: with an active intent I and a confirmation word as the message, decide
\* returns I and leaves the stored session as it was, whatever RESET_ON_NO_MATCH.
C4_ConfirmationKeepsSession ==
    \A sid \in Sids, m \in ConfirmWords :
        Active(sid) =>
            /\ DecideNow(sid, m).ret = GetState(STORE, sid).intent
            /\ DecideNow(sid, m).store = GetStateStore(STORE, sid)

\* decide ran on a confirmation word with an intent active and reset enabled
C4_Witness ==
    /\ last.decided
    /\ last.msg \in ConfirmWords
    /\ last.preIntent # "None"
    /\ RESET_ON_NO_MATCH
    /\ last.ret = last.preIntent
    /\ last.decSame

\* C5: with an active intent I, a message that is no cancellation, no
\* confirmation and has no hit for any intent clears the session when
\* RESET_ON_NO_MATCH is set and leaves it on I, unchanged, when it is not.
C5_NoMatchResetsOrStays ==
    \A sid \in Sids, m \in AllTexts :
        (Active(sid) /\ ~IsCancelMessage(m) /\ ~ConfirmRe(m) /\ ZeroHits(m)) =>
            IF RESET_ON_NO_MATCH
                THEN /\ DecideNow(sid, m).ret = ""
                     /\ ~DecideNow(sid, m).store[sid].present
                ELSE /\ DecideNow(sid, m).ret = GetState(STORE, sid).intent
                     /\ DecideNow(sid, m).store = GetStateStore(STORE, sid)

\* decide cleared an active session on a message without any hit
C5_Witness ==
    /\ last.decided
    /\ last.preIntent # "None"
    /\ ~IsCancelMessage(last.msg) /\ ~ConfirmRe(last.msg) /\ ZeroHits(last.msg)
    /\ RESET_ON_NO_MATCH
    /\ last.ret = ""
    /\ last.decCleared


\* the stored entry of a session newly created for an intent
FreshEntry(intent) == [present |-> TRUE, st |-> NewSession(intent)]

DecideWith(sid, m, p, s) == DecideIntent(GetStateStore(STORE, sid), sid, m, p, s)

\* C7 as stated: with no active intent and no trigger hit, the prediction is
\* adopted iff it is one of the five intents with confidence >= 0.70, and the
\* result is 'no intent' otherwise.
C7_ClassifierAdoptedWithoutHits ==
    \A sid \in Sids, m \in AllTexts, p \in Predictions, s \in Scores :
        (~Active(sid) /\ ZeroHits(m)) =>
            DecideWith(sid, m, p, s).ret = IF p \in FiveIntents /\ s >= SCORE_MIN THEN p ELSE ""

\* C7, amended: with no active intent, no trigger hit and a message that is not
\* a cancellation phrase, the prediction is adopted as a fresh sticky intent iff
\* it is one of the five intents with confidence >= 0.70, and the result is
\* 'no intent' otherwise; a cancellation phrase gives 'no intent' whatever the
\* prediction. With an active intent, or with a trigger hit, the result and the
\* stored session are the same for every classifier output.
C7_ClassifierOnlyWithoutIntentAndHits ==
    \A sid \in Sids, m \in AllTexts, p \in Predictions, s \in Scores :
        LET d == DecideWith(sid, m, p, s)
            d0 == DecideWith(sid, m, "None", 0)
        IN  /\ (Active(sid) \/ ~ZeroHits(m)) => (d.ret = d0.ret /\ d.store = d0.store)
            /\ IsCancelMessage(m) => (d.ret = "" /\ ~d.store[sid].present)
            /\ (~Active(sid) /\ ZeroHits(m) /\ ~IsCancelMessage(m)) =>
                  IF p \in FiveIntents /\ s >= SCORE_MIN
                      THEN d.ret = p /\ d.store[sid] = FreshEntry(p)
                      ELSE d.ret = "" /\ d.store = GetStateStore(STORE, sid)

\* decide adopted the classifier's intent at the threshold
C7_Witness ==
    /\ last.decided
    /\ last.how = "classifier"
    /\ last.preIntent = "None"
    /\ ZeroHits(last.msg)
    /\ last.predicted = <<INTENT_TRIP, SCORE_MIN>>
    /\ last.ret = INTENT_TRIP
    /\ \E sid \in Sids : STORE[sid] = FreshEntry(INTENT_TRIP)

\* the intent a turn adopted
AdoptedIntent ==
    IF last.adopt = "twocity" THEN INTENT_TRIP
    ELSE IF last.adopt = "booking_start" THEN BOOKING_INTENT
    ELSE last.ret

\* C8: whenever a turn changes the session's intent to a different one (trigger
\* or classifier adoption, drift switch, hard override, the two-city shortcut,
\* booking start), the session it persists carries no slot value of the previous
\* intent and has a full budget.
C8_AdoptionStartsNewSession ==
    (last.adopt # "None" /\ AdoptedIntent # last.preIntent) => last.adoptClean

\* C9: _dec_budget on a stored session with budget 1 removes it, so the next get
\* returns a session equal to a freshly created one.
C9_LastBudgetUnitClearsSession ==
    \A sid \in Sids :
        (STORE[sid].present /\ STORE[sid].st.budget = 1) =>
            /\ ~DecBudget(STORE, sid)[sid].present
            /\ GetState(DecBudget(STORE, sid), sid) = NewSession("None")
            /\ FreshListed(GetState(DecBudget(STORE, sid), sid))

\* a turn spent the last unit of budget and the session read back is fresh
C9_Witness ==
    /\ last.decFrom = 1
    /\ \A sid \in Sids : FreshListed(GetState(STORE, sid))

\* C10: every stored session has 0 <= budget <= FOLLOWUP_BUDGET_DEFAULT, and none
\* with budget <= 0 is stored.
C10_StoredBudgetInRange ==
    \A sid \in Sids :
        STORE[sid].present =>
            /\ STORE[sid].st.budget >= 1
            /\ STORE[sid].st.budget <= FOLLOWUP_BUDGET_DEFAULT
            /\ GetState(STORE, sid).budget > 0

\* a session on its last unit of budget is stored after two paid turns
C10_Witness ==
    \E sid \in Sids :
        /\ STORE[sid].present
        /\ STORE[sid].st.budget = 1
        /\ last.decFrom = 2


\* C11: in every persisted session, intent = None implies that slots and
\* booking_slots are both empty.
C11_NoIntentNoSlots ==
    \A sid \in Sids :
        (STORE[sid].present /\ STORE[sid].st.intent = "None") =>
            /\ STORE[sid].st.slots = EmptySlots
            /\ STORE[sid].st.booking_slots = EmptyBooking


\* ---------------------------------------------------------------------------
\* The booking dialogue: the endpoint on the messages of a booking
\* ---------------------------------------------------------------------------

\* the messages of a booking dialogue: triggers without and with a route, an
\* address, a time, a name, a phone number, confirmation, cancellation, and
\* two city names
BookingMsgs == {"book", "bookroute", "addr", "asap", "avrio", "name", "phone", "nai",
                "cancel", "twocity"}

\* the settings are the defaults of the source
InitBooking ==
    /\ STORE = [sid \in Sids |-> NoEntry]
    /\ RESET_ON_NO_MATCH = TRUE
    /\ DRIFT_SWITCH_MIN_HITS = 1
    /\ last = NoLast
    /\ pending = [sid \in Sids |-> NoPending]
    /\ codes = <<>>
    /\ clock = NoClock
    /\ sessions = NoSessions
    /\ held = [sid \in Sids |-> NoHeld]
    /\ REDIS = [sid \in Sids |-> NoEntry]

NextBooking == \E sid \in Sids, m \in BookingMsgs : Chat(sid, m)

SpecBooking == InitBooking /\ [][NextBooking]_vars


\* the session of sid is a booking with a required slot still empty
Collecting(sid) ==
    /\ GetState(STORE, sid).intent = BOOKING_INTENT
    /\ \E i \in 1..Len(BOOKING_REQUIRED) :
           ~Truthy(GetState(STORE, sid).booking_slots[BOOKING_REQUIRED[i]])

\* the number of required booking slots that hold a value
FilledRequired(slots) ==
    Cardinality({i \in 1..Len(BOOKING_REQUIRED) : Truthy(slots[BOOKING_REQUIRED[i]])})

\* the first required booking slot, in the order origin, destination,
\* pickup_time, name, phone, that holds no value
FirstEmptyRequired(slots) ==
    IF FilledRequired(slots) = Len(BOOKING_REQUIRED) THEN "None"
    ELSE BOOKING_REQUIRED[CHOOSE i \in 1..Len(BOOKING_REQUIRED) :
             /\ ~Truthy(slots[BOOKING_REQUIRED[i]])
             /\ \A j \in 1..(i - 1) : Truthy(slots[BOOKING_REQUIRED[j]])]

\* text m is a valid value for required slot k: a precise address, a time that
\* parses, a phone number that parses, any (non-empty) name
ValidFor(k, m) ==
    IF k \in {"origin", "destination"} THEN IsPreciseAddressText(m)
    ELSE IF k = "pickup_time" THEN ParsePickupTime(m) \notin {"None", ""}
    ELSE IF k = "phone" THEN NormalizePhone(m) \notin {"None", ""}
    ELSE TRUE

\* booking_collect on the session of sid with text m
CollectNow(sid, m) == BookingCollect(GetState(STORE, sid), m)

\* C12: each booking_collect call fills exactly the next missing required slot
\* when its input is valid for it and none when it is not, and the summary
\* (booking_confirm, last_offered = booking_confirm) is produced exactly by the
\* call whose valid input fills the fifth required slot, never earlier.
C12_ConfirmingExactlyAfterFifthValidInput ==
    \A sid \in Sids, m \in AllTexts :
        LET slots == GetState(STORE, sid).booking_slots
            k == FirstEmptyRequired(slots)
            after == CollectNow(sid, m).st
        IN  Collecting(sid) =>
              /\ FilledRequired(after.booking_slots)
                    = FilledRequired(slots) + (IF ValidFor(k, m) THEN 1 ELSE 0)
              /\ ValidFor(k, m) => Truthy(after.booking_slots[k])
              /\ (CollectNow(sid, m).reply = "booking_summary")
                    <=> (ValidFor(k, m) /\ FilledRequired(slots) = Len(BOOKING_REQUIRED) - 1)
              /\ (CollectNow(sid, m).reply = "booking_summary")
                    => after.last_offered = "booking_confirm"
              /\ (CollectNow(sid, m).reply # "booking_summary")
                    => after.last_offered = GetState(STORE, sid).last_offered

\* a booking started without prefill got its summary on the phone number, the
\* fifth valid input, with all five required slots filled
C12_Witness ==
    \E sid \in Sids :
        /\ last.msg = "phone"
        /\ last.path = "booking_summary"
        /\ STORE[sid].present
        /\ STORE[sid].st.last_offered = "booking_confirm"
        /\ FilledRequired(STORE[sid].st.booking_slots) = Len(BOOKING_REQUIRED)
        /\ STORE[sid].st.booking_slots.origin = "addr"
        /\ STORE[sid].st.booking_slots.name = "name"


\* destination is the next missing booking slot of the session of sid
DestinationNext(sid) ==
    Collecting(sid) /\ FirstEmptyRequired(GetState(STORE, sid).booking_slots) = "destination"

\* C13: with destination the next missing booking slot, booking_collect on a
\* text with no digit and no point-of-interest keyword stores nothing and
\* destination stays the next missing slot; on a text with a digit it stores
\* the text as destination and the next missing slot moves past destination.
C13_VagueDestinationDoesNotAdvance ==
    \A sid \in Sids, m \in AllTexts :
        DestinationNext(sid) =>
          /\ (~HasDigit(m) /\ ~HasPoiKeyword(m)) =>
                /\ ~Truthy(CollectNow(sid, m).st.booking_slots.destination)
                /\ FirstEmptyRequired(CollectNow(sid, m).st.booking_slots) = "destination"
                /\ CollectNow(sid, m).reply = "refine_address"
          /\ HasDigit(m) =>
                /\ CollectNow(sid, m).st.booking_slots.destination = m
                /\ FirstEmptyRequired(CollectNow(sid, m).st.booking_slots)
                      \in {"pickup_time", "name", "phone", "None"}

\* a booking whose origin is stored waits for its destination, so that both
\* «εκεί κοντά» (kept out) and «Ζαΐμη 2» (stored) are inputs of the gate
C13_Witness ==
    \E sid \in Sids :
        /\ DestinationNext(sid)
        /\ STORE[sid].st.booking_slots.origin = "addr"
        /\ ~HasDigit("vague") /\ ~HasPoiKeyword("vague")
        /\ CollectNow(sid, "vague").reply = "refine_address"
        /\ HasDigit("addr")
        /\ CollectNow(sid, "addr").st.booking_slots.destination = "addr"


\* a stored address value holds a digit or a point-of-interest keyword
PreciseValue(v) == HasDigit(v) \/ HasPoiKeyword(v)

\* C14: in every reachable state the origin and the destination of
\* booking_slots, when present, hold a digit or a point-of-interest keyword,
\* whether booking_start prefilled them or booking_collect stored them.
C14_StoredAddressesArePrecise ==
    \A sid \in Sids :
        STORE[sid].present =>
          /\ Truthy(STORE[sid].st.booking_slots.origin)
                => PreciseValue(STORE[sid].st.booking_slots.origin)
          /\ Truthy(STORE[sid].st.booking_slots.destination)
                => PreciseValue(STORE[sid].st.booking_slots.destination)

\* booking_start prefilled the origin «Ζαΐμη 2» from the trigger message and
\* kept «αεροδρόμιο» out, and booking_collect then stored a destination
C14_Witness ==
    \E sid \in Sids :
        /\ STORE[sid].present
        /\ STORE[sid].st.intent = BOOKING_INTENT
        /\ last.msg = "addr"
        /\ ExtractFromTo("bookroute") = <<"addr", "aerodromio">>
        /\ ~PreciseValue("aerodromio")
        /\ STORE[sid].st.booking_slots.origin = "addr"
        /\ STORE[sid].st.booking_slots.destination = "addr"
        /\ Len(STORE[sid].st.context_turns) = 4


\* the replies of booking_collect that ask again for the slot being collected
CorrectionPrompts == {"ask_phone", "ask_time", "refine_address", "booking_prompt"}

\* C15: booking_collect on a value that is invalid for the slot being collected
\* answers a correction prompt, leaves the next missing slot as it was, and
\* leaves every value stored in booking_slots before the call unchanged.
C15_InvalidValueKeepsBookingSlots ==
    \A sid \in Sids, m \in AllTexts :
        LET slots == GetState(STORE, sid).booking_slots
            after == CollectNow(sid, m).st.booking_slots
        IN  (Collecting(sid) /\ ~ValidFor(FirstEmptyRequired(slots), m)) =>
              /\ CollectNow(sid, m).reply \in CorrectionPrompts
              /\ FirstEmptyRequired(after) = FirstEmptyRequired(slots)
              /\ \A f \in DOMAIN slots : Truthy(slots[f]) => after[f] = slots[f]


\* C16: booking_finalize runs only in answer to a bare affirmative and only
\* with all five required booking slots filled, and in every persisted state
\* last_offered = booking_confirm implies that the required slots are complete.
C16_FinalizeOnlyFromConfirming ==
    \A sid \in Sids :
        /\ (STORE[sid].present /\ STORE[sid].st.last_offered = "booking_confirm")
              => FilledRequired(STORE[sid].st.booking_slots) = Len(BOOKING_REQUIRED)
        /\ \A m \in AllTexts :
              MaybeHandleFollowupOrBooking(GetState(STORE, sid), m, "ok").reply = "booking_final"
                 => /\ IsShort(m)
                    /\ FilledRequired(GetState(STORE, sid).booking_slots) = Len(BOOKING_REQUIRED)


\* the session of sid is a booking in progress: collecting a required slot,
\* or complete and waiting for the confirmation
InBooking(sid) ==
    /\ GetState(STORE, sid).intent = BOOKING_INTENT
    /\ \/ Collecting(sid)
       \/ GetState(STORE, sid).last_offered = "booking_confirm"

\* C17: a cancellation phrase sent in any booking state takes the booking back
\* to NotStarted (intent None, booking_slots empty, last_offered None), is
\* answered as a cancellation and not with a slot re-prompt, and is not stored
\* as a booking slot value.
C17_CancelFromEveryBookingState ==
    [][\A sid \in Sids :
          (InBooking(sid) /\ last'.msg = "cancel") =>
             /\ last'.path = "cancel_ack"
             /\ GetState(STORE', sid).intent = "None"
             /\ GetState(STORE', sid).booking_slots = EmptyBooking
             /\ GetState(STORE', sid).last_offered = "None"]_vars


\* the turns that run again the tool of the active intent
ToolRerunPaths ==
    {"quick_confirm", "trip_quote", "trip_quote_luggage", "pharmacy_found", "hospital_found",
     "info", "booking_final"}

\* C18: a bare confirmation is interpreted through last_offered alone: with
\* last_offered = None it re-runs and accepts no offer, no tool of the active
\* intent is dispatched again, whatever that intent is.
C18_BareConfirmationOnlyThroughLastOffered ==
    [][\A sid \in Sids :
          (/\ STORE[sid].present
           /\ STORE[sid].st.last_offered = "None"
           /\ IsShort(last'.msg)) =>
             last'.path \notin ToolRerunPaths]_vars


\* the turns that end in the except clauses of chat_endpoint: an error status
\* with an {"error": ...} body in place of a reply
ErrorStatusPaths == {"error_500", "error_504"}

\* C20: a failure of the outside tool call is recovered inside every intent
\* branch: no turn ends with an error status in place of a fallback reply.
C20_ToolFailureRecoveredLocally == last.path \notin ErrorStatusPaths


\* ---------------------------------------------------------------------------
\* Two requests of one session: chat_endpoint is a coroutine, and the event
\* loop runs other requests while one waits at "await _run_tool_with_timeout"
\* ---------------------------------------------------------------------------

\* the replies whose branch awaits the tool and lets a failure through to the
\* except clauses at the end of chat_endpoint
AwaitPaths == {"quick_confirm", "trip_quote", "info", "fallback_trip", "fallback_agent"}

\* the store as the request leaves it when it suspends at the await: what the
\* except clauses find when the call fails at that point
StoreAtAwait(S, sid, m) == ChatEndpoint(S, sid, m, "raise", FALSE).store

\* the statements after the await, run on the store as it is then: _dec_budget
\* (not in the generic fallback), inject_trendy_phrase and _push_context
AfterAwait(S, sid, path, phrase) ==
    IF path \in {"fallback_trip", "fallback_agent"} THEN RepliedInjected(S, sid, path, phrase)
    ELSE SpentInjected(S, sid, path, phrase)

\* the messages of the two requests: a trip question, a place question, a
\* confirmation, a greeting, a cancellation
ConcurrentMsgs == {"tripq", "paralia", "nai", "hello", "cancel"}

InitConcurrent == InitBooking

\* a request runs up to its await and suspends there
BeginChat(sid, m) ==
    /\ ~pending[sid].active
    /\ ChatEndpoint(STORE, sid, m, "ok", FALSE).last.path \in AwaitPaths
    /\ STORE' = StoreAtAwait(STORE, sid, m)
    /\ pending' = [pending EXCEPT ![sid] =
                      [active |-> TRUE,
                       turn |-> ChatEndpoint(STORE, sid, m, "ok", FALSE).last,
                       saved |-> StoreAtAwait(STORE, sid, m)[sid]]]
    /\ UNCHANGED <<RESET_ON_NO_MATCH, DRIFT_SWITCH_MIN_HITS, last, codes, clock, sessions,
                 held, REDIS>>

\* the tool answers and the suspended request runs to its end
FinishChat(sid) ==
    /\ pending[sid].active
    /\ \E phrase \in BOOLEAN :
           STORE' = AfterAwait(STORE, sid, pending[sid].turn.path, phrase).store
    /\ last' = [pending[sid].turn EXCEPT
                   !.decFrom = AfterAwait(STORE, sid, pending[sid].turn.path, FALSE).decFrom]
    /\ pending' = [pending EXCEPT ![sid] = NoPending]
    /\ UNCHANGED <<RESET_ON_NO_MATCH, DRIFT_SWITCH_MIN_HITS, codes, clock, sessions, held, REDIS>>

NextConcurrent ==
    \/ \E sid \in Sids, m \in ConcurrentMsgs : Chat(sid, m)
    \/ \E sid \in Sids, m \in ConcurrentMsgs : BeginChat(sid, m)
    \/ \E sid \in Sids : FinishChat(sid)

SpecConcurrent == InitConcurrent /\ [][NextConcurrent]_vars

\* C19: two requests of one session never interleave their read-modify-write:
\* when a suspended request resumes to decrement the budget and persist, the
\* stored session is the version it left at its await, neither replaced nor
\* cleared by another request in the meantime.
C19_RequestsOfOneSessionDoNotInterleave ==
    [][\A sid \in Sids :
          (pending[sid].active /\ ~pending'[sid].active)
             => STORE[sid] = pending[sid].saved]_vars


\* the ways a turn takes up an intent: _decide_intent adopting or switching,
\* and the two-city shortcut after it
AdoptingHows == {"drift", "override", "scan", "trigger", "classifier", "twocity"}

C22_TripQuoteClearsIntent ==
    \A sid \in Sids :
        last.path \in {"trip_quote", "quick_confirm"} => GetState(STORE, sid).intent = "None"


\* C23: a bare confirmation of the booking summary always ends in the reply of
\* booking_finalize with the booking code, whatever the outcome of geocoding,
\* of the remote submission and of the back-office notification, and
\* last_offered is None afterwards.
C23_FinalizeAlwaysCompletes ==
    [][\A sid \in Sids :
          (/\ STORE[sid].present
           /\ STORE[sid].st.last_offered = "booking_confirm"
           /\ IsShort(last'.msg)) =>
             /\ last'.path = "booking_final"
             /\ STORE'[sid].present
             /\ STORE'[sid].st.last_offered = "None"
             /\ \A ext \in ExtOutcomes :
                   /\ BookingFinalize(STORE[sid].st, ext).handled
                   /\ ~BookingFinalize(STORE[sid].st, ext).raised
                   /\ BookingFinalize(STORE[sid].st, ext).reply = "booking_final"]_vars

\* a complete booking was confirmed with «ναι» and finalized
C23_Witness ==
    \E sid \in Sids :
        /\ last.msg = "nai"
        /\ last.path = "booking_final"
        /\ STORE[sid].present
        /\ STORE[sid].st.intent = BOOKING_INTENT
        /\ FilledRequired(STORE[sid].st.booking_slots) = Len(BOOKING_REQUIRED)
        /\ STORE[sid].st.last_offered = "None"


\* ---------------------------------------------------------------------------
\* _booking_code: the codes booking_finalize hands out
\* ---------------------------------------------------------------------------

\* characters of string.ascii_uppercase + string.digits the draws are taken from
CodeChars == {"A", "Z", "7"}

\* k of random.choices(..., k=4)
CodeLen == 4

\* the days datetime.now() falls on
Days == {20261105, 20261106}

\* how many codes are issued
MaxCodes == 2

\* the outcomes of random.choices(chars, k=4): draws with replacement
Draws == [1..CodeLen -> CodeChars]

\* f"BK-{datetime.now().strftime('%Y%m%d')}-{rnd}"
BookingCode(day, rnd) == <<"BK", day, rnd>>

\* booking_finalize draws a code; the clock does not run backwards
IssueCode(day, rnd) ==
    /\ Len(codes) < MaxCodes
    /\ Len(codes) > 0 => day >= codes[Len(codes)][2]
    /\ codes' = Append(codes, BookingCode(day, rnd))
    /\ UNCHANGED <<STORE, RESET_ON_NO_MATCH, DRIFT_SWITCH_MIN_HITS, last, pending, clock, sessions,
                 held, REDIS>>

NextCodes == \E day \in Days, rnd \in Draws : IssueCode(day, rnd)

SpecCodes == InitBooking /\ [][NextCodes]_vars

\* C24: no two executions of booking_finalize produce the same booking code.
C24_BookingCodesUnique ==
    \A i, j \in 1..Len(codes) : i # j => codes[i] # codes[j]


\* ---------------------------------------------------------------------------
\* _push_context called directly, with the texts of its two lines
\* ---------------------------------------------------------------------------

\* user texts and replies of the pushed turns
ContextTexts == {"nai", "tripq"}

ContextReplies == {"trip_quote", "fallback_agent"}

\* f"U: {user_text}" and f"A: {reply_text}"
ULine(u) == "U: " \o u

ALine(a) == "A: " \o a

\* _push_context(sid, u, a) on the store
PushCall(sid, u, a) ==
    /\ STORE' = PushContextLines(STORE, sid, ULine(u), ALine(a))
    /\ last' = [NoLast EXCEPT !.msg = u, !.path = a]
    /\ UNCHANGED <<RESET_ON_NO_MATCH, DRIFT_SWITCH_MIN_HITS, pending, codes, clock, sessions,
                 held, REDIS>>

NextContext == \E sid \in Sids, u \in ContextTexts, a \in ContextReplies : PushCall(sid, u, a)

SpecContext == InitBooking /\ [][NextContext]_vars

\* C25: context_turns never holds more than 10 lines; a push appends the two
\* lines "U: <user text>" and "A: <reply>" of the turn, in that order, behind
\* the lines that were there, and drops lines only from the front, down to 10.
C25_ContextKeepsLastTenLines ==
    [][\A sid \in Sids :
          LET old == GetState(STORE, sid).context_turns
              new == GetState(STORE', sid).context_turns
              all == old \o <<"U: " \o last'.msg, "A: " \o last'.path>>
          IN  /\ Len(new) <= 10
              /\ Len(new) = (IF Len(old) + 2 <= 10 THEN Len(old) + 2 ELSE 10)
              /\ new[Len(new) - 1] = "U: " \o last'.msg
              /\ new[Len(new)] = "A: " \o last'.path
              /\ \A i \in 1..Len(new) : new[i] = all[Len(all) - Len(new) + i]]_vars

\* the buffer is full: it holds ten lines, four trip turns and behind them the
\* two lines of the turn pushed last
C25_Witness ==
    \E sid \in Sids :
        /\ STORE[sid].present
        /\ Len(STORE[sid].st.context_turns) = 10
        /\ STORE[sid].st.context_turns[1] = "U: tripq"
        /\ STORE[sid].st.context_turns[9] = "U: nai"
        /\ STORE[sid].st.context_turns[10] = "A: fallback_agent"
        /\ \A i \in 1..8 : STORE[sid].st.context_turns[i] \in {"U: tripq", "A: trip_quote"}
        /\ last.msg = "nai"


\* ---------------------------------------------------------------------------
\* MemoryStore with its expiry times: set, _get_state, and the passing of time
\* ---------------------------------------------------------------------------

\* the TTL window SESS_TTL_SECONDS, in ticks of the clock
SESS_TTL_SECONDS == 2

\* the clock stops here
MaxNow == 8

\* "exp and time.time() > exp" with ">=" in place of ">"
TtlExpiredAtTtl(exp, now) == exp # 0 /\ now >= exp

\* MemoryStore.get: "exp and time.time() > exp"
TtlExpired(exp, now) == exp # 0 /\ now > exp

\* the store after MemoryStore.get(sid): an expired entry is dropped
StoreGet(S, c, sid) == IF TtlExpired(c.exp[sid], c.now) THEN ClearState(S, sid) ELSE S

\* MemoryStore.set(sid, st): self._exp[sid] = time.time() + SESS_TTL_SECONDS
ClockSet(c, sid) ==
    [c EXCEPT !.exp[sid] = c.now + SESS_TTL_SECONDS, !.written[sid] = c.now]

\* the sessions written in the direct calls
TtlSessions == {NewSession(INTENT_TRIP), [NewSession(INTENT_PHARMACY) EXCEPT !.budget = 1]}

\* time passes
Tick ==
    /\ clock.now < MaxNow
    /\ clock' = [clock EXCEPT !.now = @ + 1]
    /\ last' = [NoLast EXCEPT !.path = "tick"]
    /\ UNCHANGED <<STORE, RESET_ON_NO_MATCH, DRIFT_SWITCH_MIN_HITS, pending, codes, sessions,
                 held, REDIS>>

\* _save_state(sid, st)
SetCall(sid, st) ==
    /\ STORE' = SaveState(STORE, sid, st)
    /\ clock' = ClockSet(clock, sid)
    /\ last' = [NoLast EXCEPT !.path = "save_state"]
    /\ UNCHANGED <<RESET_ON_NO_MATCH, DRIFT_SWITCH_MIN_HITS, pending, codes, sessions,
                 held, REDIS>>

\* _get_state(sid): STORE.get, and a new SessionState is set when it gave None
GetStateCall(sid) ==
    /\ STORE' = GetStateStore(StoreGet(STORE, clock, sid), sid)
    /\ clock' = IF StoreGet(STORE, clock, sid)[sid].present THEN clock
                ELSE ClockSet(clock, sid)
    /\ last' = [NoLast EXCEPT !.path = "get_state", !.preStored = STORE[sid].present,
                               !.preIntent = STORE[sid].st.intent]
    /\ UNCHANGED <<RESET_ON_NO_MATCH, DRIFT_SWITCH_MIN_HITS, pending, codes, sessions,
                 held, REDIS>>

NextTtl ==
    \/ Tick
    \/ \E sid \in Sids, st \in TtlSessions : SetCall(sid, st)
    \/ \E sid \in Sids : GetStateCall(sid)

SpecTtl == InitBooking /\ [][NextTtl]_vars

\* C26: _get_state on a session last written longer ago than the TTL window
\* gives a fresh default session; on a session written within the window it
\* gives the state last written.
C26_ExpiredSessionIsAbsent ==
    [][\A sid \in Sids :
          (last'.path = "get_state" /\ STORE[sid].present) =>
              IF clock.now - clock.written[sid] > SESS_TTL_SECONDS
                  THEN STORE'[sid] = [present |-> TRUE, st |-> NewSession("None")]
                  ELSE STORE'[sid] = STORE[sid]]_vars

\* a stored session outlived the window and _get_state answered with a fresh
\* default session, written at that moment
C26_Witness ==
    \E sid \in Sids :
        /\ last.path = "get_state"
        /\ last.preStored
        /\ last.preIntent = INTENT_TRIP
        /\ STORE[sid] = [present |-> TRUE, st |-> NewSession("None")]
        /\ clock.written[sid] = clock.now
        /\ clock.now > 1 + SESS_TTL_SECONDS


\* C27: _missing_slots reports a required slot (TripCost: destination,
\* Pharmacy: area) as missing exactly when the session does not hold it and the
\* text does not give it; a slot held in the session is never reported missing.
C27_MissingIffNotInSessionNorText ==
    \A sid \in Sids, m \in AllTexts :
        LET st == GetState(STORE, sid)
        IN  /\ (MissingSlots(INTENT_PHARMACY, m, st) = <<"area">>)
                  <=> (~Truthy(st.slots.area) /\ ~Truthy(DetectAreaForPharmacy(m)))
            /\ MissingSlots(INTENT_PHARMACY, m, st) \in {<<>>, <<"area">>}
            /\ (MissingSlots(INTENT_TRIP, m, st) = <<"destination">>)
                  <=> (~Truthy(st.slots.last_dest) /\ ~Truthy(ExtractRouteFreeText(m)[2]))
            /\ MissingSlots(INTENT_TRIP, m, st) \in {<<>>, <<"destination">>}


\* the position of an intent in intents_order
OrderIndex(it) == CHOOSE i \in 1..Len(IntentsOrder) : IntentsOrder[i] = it

\* _best_intent_from_triggers(m, ex) is the first intent in the fixed order,
\* the excluded one left out, with the maximum and nonzero number of hits, and
\* (None, 0) when there is none
BestIsFirstMaximum(m, ex) ==
    LET r == BestIntentFromTriggers(m, ex)
        others == FiveIntents \ {ex}
    IN  /\ r[1] \in others \cup {"None"}
        /\ (r[1] = "None") <=> (\A it \in others : IntentTriggerHits(it, m) = 0)
        /\ r[1] = "None" => r[2] = 0
        /\ r[1] # "None" =>
              /\ r[2] = IntentTriggerHits(r[1], m)
              /\ r[2] > 0
              /\ \A it \in others :
                    /\ IntentTriggerHits(it, m) <= r[2]
                    /\ IntentTriggerHits(it, m) = r[2] => OrderIndex(r[1]) <= OrderIndex(it)

\* C28 as stated: the function is the first maximum among the non-excluded
\* intents, and the candidate decide computes on an active intent is the best
\* intent other than the active one.
C28_CandidateExcludesActiveIntent ==
    /\ \A m \in AllTexts, ex \in FiveIntents \cup {"None"} : BestIsFirstMaximum(m, ex)
    /\ \A sid \in Sids, m \in AllTexts :
          Active(sid) =>
              BestIntentFromTriggers(m, "None")
                  = BestIntentFromTriggers(m, GetState(STORE, sid).intent)

\* C28: the function is the first maximum among the non-excluded intents;
\* decide calls it with nothing excluded, and its candidate is the best intent
\* other than the active one whenever the active intent has no hit in the
\* message, which is the only case in which decide uses the candidate.
C28_CandidateIsBestOtherWhenUsed ==
    /\ \A m \in AllTexts, ex \in FiveIntents \cup {"None"} : BestIsFirstMaximum(m, ex)
    /\ \A sid \in Sids, m \in AllTexts :
          (/\ Active(sid)
           /\ IntentTriggerHits(GetState(STORE, sid).intent, m) = 0) =>
              BestIntentFromTriggers(m, "None")
                  = BestIntentFromTriggers(m, GetState(STORE, sid).intent)

\* a pharmacy session is active; a message with hits for two intents has its
\* tie broken by the order, and a message without pharmacy hits has a candidate
C28_Witness ==
    \E sid \in Sids :
        /\ STORE[sid].present
        /\ STORE[sid].st.intent = INTENT_PHARMACY
        /\ \E m \in AllTexts, a, b \in FiveIntents :
              /\ a # b
              /\ IntentTriggerHits(a, m) = IntentTriggerHits(b, m)
              /\ BestIntentFromTriggers(m, "None") = <<a, IntentTriggerHits(a, m)>>
        /\ \E m \in AllTexts :
              /\ IntentTriggerHits(INTENT_PHARMACY, m) = 0
              /\ BestIntentFromTriggers(m, "None")[1] \in FiveIntents
        /\ \E m \in AllTexts :
              BestIntentFromTriggers(m, INTENT_PHARMACY) # BestIntentFromTriggers(m, "None")



\* ---------------------------------------------------------------------------
\* SessionManager (session_manager.py): slots per intent, history, time-out
\* ---------------------------------------------------------------------------

\* SESSION_TIMEOUT, in ticks of the clock
SESSION_TIMEOUT == 2

MAX_HISTORY == 3

\* in the SessionManager runs the clock stops here
MaxManagerNow == 4

\* INTENT_SLOTS.get(intent, [])
INTENT_SLOTS(intent) ==
    CASE intent = "TripCostIntent" -> <<"origin", "destination">>
      [] intent = "OnDutyPharmacyIntent" -> <<"area">>
      [] intent = "HospitalIntent" -> <<"day">>
      [] intent = "ServicesAndToursIntent" -> <<"type">>
      [] intent = "ContactInfoIntent" -> <<"ways">>
      [] intent = "PatrasLlmAnswersIntent" -> <<"how">>
      [] OTHER -> <<>>

\* the values update_slot is called with: a place and the empty string
SlotValues == {"Patra", ""}

\* the session get_session creates
NewManagerSession(now) == [NoSession EXCEPT !.present = TRUE, !.last_used = now]

\* get_session(user_id): the stored session when it was used less than
\* SESSION_TIMEOUT ago, its last_used refreshed; otherwise a new one
GetSession(S, now, u) ==
    IF S[u].present /\ now - S[u].last_used < SESSION_TIMEOUT
    THEN [S EXCEPT ![u].last_used = now]
    ELSE [S EXCEPT ![u] = NewManagerSession(now)]

\* sess['slots'].get(intent, {}), and the value under a slot name in it
StoredSlot(sess, intent, slot) ==
    IF intent \in DOMAIN sess.slots /\ slot \in DOMAIN sess.slots[intent]
    THEN sess.slots[intent][slot]
    ELSE Absent

\* update_slot(user_id, intent, slot, value)
UpdateSlot(S, now, u, intent, slot, value) ==
    [GetSession(S, now, u) EXCEPT ![u].active_intent = intent,
                                  ![u].slots[intent][slot] = value]

\* get_missing_slots with "slot not in filled" alone
MissingOnlyAbsent(sess, intent) ==
    SelectSeq(INTENT_SLOTS(intent), LAMBDA slot : StoredSlot(sess, intent, slot) = Absent)

\* [slot for slot in required if slot not in filled or not filled[slot]]
MissingIn(sess, intent) ==
    SelectSeq(INTENT_SLOTS(intent), LAMBDA slot : ~Truthy(StoredSlot(sess, intent, slot)))

\* get_missing_slots(user_id, intent): the sessions after it, and what it returns
GetMissingSlots(S, now, u, intent) ==
    [sessions |-> GetSession(S, now, u),
     ret |-> MissingIn(GetSession(S, now, u)[u], intent)]

\* set_active_intent(user_id, intent)
SetActiveIntent(S, now, u, intent) ==
    [GetSession(S, now, u) EXCEPT ![u].active_intent = intent]

\* clear_slots(user_id, intent): del sess['slots'][intent]
ClearSlots(S, now, u, intent) ==
    IF intent \in DOMAIN NoSlots
    THEN [GetSession(S, now, u) EXCEPT ![u].slots[intent] = NoSlots[intent]]
    ELSE GetSession(S, now, u)

\* add_history(user_id, intent, user_msg, bot_msg): the intents of the entries
AddHistory(S, now, u, intent) ==
    [GetSession(S, now, u) EXCEPT
        ![u].history = LastN(Append(@, intent), MAX_HISTORY)]

\* reset(user_id)
ResetSession(S, u) == [S EXCEPT ![u] = NoSession]

\* the intent get_last_intent reads off a session
LastIntentIn(sess) ==
    IF sess.history # <<>> THEN sess.history[Len(sess.history)] ELSE sess.active_intent

\* get_last_intent(user_id): the sessions after it, and what it returns
GetLastIntent(S, now, u) ==
    [sessions |-> GetSession(S, now, u), ret |-> LastIntentIn(GetSession(S, now, u)[u])]

\* one call of the SessionManager is made and recorded
ManagerCall(u, name, intent, slot, value, S, ret) ==
    /\ sessions' = S
    /\ last' = [NoLast EXCEPT !.path = name, !.tool_input = intent, !.msg = slot,
                               !.area = value, !.ret = ret,
                               !.preIntent = GetLastIntent(sessions, clock.now, u).ret]
    /\ UNCHANGED <<STORE, RESET_ON_NO_MATCH, DRIFT_SWITCH_MIN_HITS, pending, codes, clock,
                 held, REDIS>>

UpdateSlotCall(u, intent, slot, value) ==
    ManagerCall(u, "update_slot", intent, slot, value,
                UpdateSlot(sessions, clock.now, u, intent, slot, value), <<>>)

GetMissingSlotsCall(u, intent) ==
    ManagerCall(u, "get_missing_slots", intent, "None", "None",
                GetMissingSlots(sessions, clock.now, u, intent).sessions,
                GetMissingSlots(sessions, clock.now, u, intent).ret)

SetActiveIntentCall(u, intent) ==
    ManagerCall(u, "set_active_intent", intent, "None", "None",
                SetActiveIntent(sessions, clock.now, u, intent), <<>>)

ClearSlotsCall(u, intent) ==
    ManagerCall(u, "clear_slots", intent, "None", "None",
                ClearSlots(sessions, clock.now, u, intent), <<>>)

AddHistoryCall(u, intent) ==
    ManagerCall(u, "add_history", intent, "None", "None",
                AddHistory(sessions, clock.now, u, intent), <<>>)

ResetCall(u) ==
    ManagerCall(u, "reset", "None", "None", "None", ResetSession(sessions, u), <<>>)

\* time passes between two calls
ManagerTick ==
    /\ clock.now < MaxManagerNow
    /\ clock' = [clock EXCEPT !.now = @ + 1]
    /\ UNCHANGED <<STORE, RESET_ON_NO_MATCH, DRIFT_SWITCH_MIN_HITS, last, pending, codes, sessions,
                 held, REDIS>>

NextManager ==
    \/ \E u \in Users, intent \in ManagerIntents, value \in SlotValues :
          \E i \in 1..Len(INTENT_SLOTS(intent)) :
              UpdateSlotCall(u, intent, INTENT_SLOTS(intent)[i], value)
    \/ \E u \in Users, intent \in ManagerIntents : GetMissingSlotsCall(u, intent)
    \/ \E u \in Users, intent \in ManagerIntents : SetActiveIntentCall(u, intent)
    \/ \E u \in Users, intent \in ManagerIntents : ClearSlotsCall(u, intent)
    \/ \E u \in Users, intent \in ManagerIntents : AddHistoryCall(u, intent)
    \/ \E u \in Users : ResetCall(u)
    \/ ManagerTick

SpecManager == InitBooking /\ [][NextManager]_vars


\* the value stored under a slot of an intent in the session of u as the next
\* call finds it: nothing when there is no session or it has timed out
StoredNow(S, now, u, intent, slot) ==
    IF S[u].present /\ now - S[u].last_used < SESSION_TIMEOUT
    THEN StoredSlot(S[u], intent, slot)
    ELSE Absent

\* r lists, in the order of INTENT_SLOTS and once each, exactly the required
\* slots of the intent that have no non-empty stored value
ListsUnfilledInOrder(r, S, now, u, intent) ==
    LET required == INTENT_SLOTS(intent)
    IN  /\ \A i \in 1..Len(required) :
              (\E j \in 1..Len(r) : r[j] = required[i])
                  <=> StoredNow(S, now, u, intent, required[i]) \in {Absent, "None", ""}
        /\ \A j \in 1..Len(r) : \E i \in 1..Len(required) : r[j] = required[i]
        /\ \A j, k \in 1..Len(r) :
              j < k => \E i, l \in 1..Len(required) :
                          i < l /\ required[i] = r[j] /\ required[l] = r[k]

\* get_missing_slots was asked for the last intent of the session and gave a
\* non-empty list, and the next call is update_slot on one of the listed slots
FillsMissingSlotOfLastIntent ==
    /\ last.path = "get_missing_slots"
    /\ last.tool_input = last.preIntent
    /\ last'.path = "update_slot"
    /\ last'.tool_input = last.tool_input
    /\ \E j \in 1..Len(last.ret) : last.ret[j] = last'.msg

TripHitOnUnfinishedIntent(sid) ==
    /\ last'.path = "decide_only"
    /\ GetState(STORE, sid).intent \in FiveIntents \ {INTENT_TRIP}
    /\ MissingSlots(GetState(STORE, sid).intent, last'.msg, GetState(STORE, sid)) # <<>>
    /\ IntentTriggerHits(INTENT_TRIP, last'.msg) >= 1

\* the active intent has no hit in the message and some intent has more hits
\* than TripCost, at least DRIFT_SWITCH_MIN_HITS of them
OutvotedWithoutCurrentHit(sid) ==
    /\ IntentTriggerHits(GetState(STORE, sid).intent, last'.msg) = 0
    /\ \E J \in FiveIntents :
          /\ IntentTriggerHits(J, last'.msg) > IntentTriggerHits(INTENT_TRIP, last'.msg)
          /\ IntentTriggerHits(J, last'.msg) >= DRIFT_SWITCH_MIN_HITS

\* C30 as stated: on an active intent other than TripCost with a missing slot,
\* a message with a TripCost trigger hit makes decide return TripCost and store
\* a fresh TripCost session, whatever other hits the message has.
C30_TripOverridesUnfinishedIntent ==
    [][\A sid \in Sids :
          TripHitOnUnfinishedIntent(sid) =>
              /\ last'.ret = INTENT_TRIP
              /\ last'.decFresh]_vars

\* C30: on an active intent other than TripCost with a missing slot, a message
\* with a TripCost trigger hit makes decide return TripCost and store a fresh
\* TripCost session, also when the message has hits for the active intent or
\* as many hits for TripCost as for any other intent; when the active intent
\* has no hit and another intent has more hits than TripCost, at least
\* DRIFT_SWITCH_MIN_HITS, the drift switch comes first and decide stores a
\* fresh session of an intent with more hits than TripCost.
C30_TripOverridesUnlessDriftElsewhere ==
    [][\A sid \in Sids :
          TripHitOnUnfinishedIntent(sid) =>
              /\ last'.decFresh
              /\ ~OutvotedWithoutCurrentHit(sid) => last'.ret = INTENT_TRIP
              /\ OutvotedWithoutCurrentHit(sid) =>
                    /\ last'.ret \in FiveIntents \ {INTENT_TRIP, GetState(STORE, sid).intent}
                    /\ IntentTriggerHits(last'.ret, last'.msg)
                          > IntentTriggerHits(INTENT_TRIP, last'.msg)]_vars

\* a pharmacy session without an area got «πόσο κοστίζει το εφημερεύον
\* φαρμακείο;», which has more pharmacy hits than trip hits, and decide left the
\* missing-slot branch with a fresh TripCost session
C30_Witness ==
    /\ last.path = "decide_only"
    /\ last.msg = "costpharm2"
    /\ last.preIntent = INTENT_PHARMACY
    /\ last.how = "override"
    /\ last.ret = INTENT_TRIP
    /\ last.decFresh
    /\ \E sid \in Sids : GetState(STORE, sid) = NewSession(INTENT_TRIP)



\* ---------------------------------------------------------------------------
\* Cost questions during a booking, under every setting of the environment
\* ---------------------------------------------------------------------------

\* the messages of these runs: a booking is started and filled, and cost
\* questions arrive in it
CostMsgs == {"bookroute", "addr", "name", "nai", "diadromi", "timi"}

NextCost == \E sid \in Sids, m \in CostMsgs : Chat(sid, m)

SpecCost == Init /\ [][NextCost]_vars

\* the stored session is in the booking flow and has a booking slot filled
BookingWithSlots(S, sid) ==
    /\ S[sid].present
    /\ S[sid].st.intent = BOOKING_INTENT
    /\ \E k \in DOMAIN S[sid].st.booking_slots : Truthy(S[sid].st.booking_slots[k])

\* the stored session is out of the booking flow
OutOfBooking(S, sid) ==
    /\ GetState(S, sid).intent # BOOKING_INTENT
    /\ \A k \in DOMAIN GetState(S, sid).booking_slots :
          ~Truthy(GetState(S, sid).booking_slots[k])

C32_StickyTurnSpendsBudget ==
    [][\A sid \in Sids :
          (/\ last'.decided
           /\ STORE[sid].present
           /\ STORE[sid].st.intent \in FiveIntents
           /\ last'.ret = STORE[sid].st.intent
           /\ last'.how \in {"stay", "confirm"})
              => \/ /\ STORE[sid].st.budget = 1
                    /\ ~STORE'[sid].present
                 \/ /\ STORE[sid].st.budget > 1
                    /\ STORE'[sid].present
                    /\ STORE'[sid].st.intent = STORE[sid].st.intent
                    /\ STORE'[sid].st.budget = STORE[sid].st.budget - 1]_vars


\* C33: when _decide_intent returns the intent that was active before the
\* call, the stored session is as it was (slots, budget, booking_slots,
\* last_offered, context_turns); and whatever it returns, it either leaves the
\* store as it was, clears the session, or stores a fresh session of an intent
\* other than the one that was active.
C33_StayingLeavesSessionUntouched ==
    last.decided =>
        /\ (last.preStored /\ last.preIntent \in FiveIntents /\ last.ret = last.preIntent)
              => last.decSame
        /\ \/ last.decSame
           \/ last.decCleared
           \/ last.decFresh /\ last.ret # last.preIntent


\* C34 as stated: with an active intent that has no hit on the message, decide
\* switches to another intent only when the best candidate has at least
\* DRIFT_SWITCH_MIN_HITS hits.
C34_SwitchOnlyAtThreshold ==
    \A sid \in Sids, m \in AllTexts :
        LET I == GetState(STORE, sid).intent
            J == DecideNow(sid, m).ret
        IN  (Active(sid) /\ IntentTriggerHits(I, m) = 0 /\ J \notin {I, ""}) =>
                BestIntentFromTriggers(m, I)[2] >= DRIFT_SWITCH_MIN_HITS

\* C34, amended: with an active intent that has no hit on the message and a
\* best candidate with at least one hit, decide always switches, to a fresh
\* session: to the best candidate when it has at least DRIFT_SWITCH_MIN_HITS
\* hits (the drift switch), and below the threshold to TripCost when a slot is
\* missing and TripCost has a hit, otherwise to the first intent in priority
\* order with a hit. The threshold decides which intent, not whether.
C34_ThresholdSelectsTheTarget ==
    \A sid \in Sids, m \in AllTexts :
        LET st == GetState(STORE, sid)
            I == st.intent
            dec == DecideNow(sid, m)
            cand == BestIntentFromTriggers(m, I)
        IN  (Active(sid) /\ IntentTriggerHits(I, m) = 0 /\ cand[2] >= 1) =>
              /\ dec.ret \in FiveIntents \ {I}
              /\ GetState(dec.store, sid) = NewSession(dec.ret)
              /\ cand[2] >= DRIFT_SWITCH_MIN_HITS => dec.ret = cand[1]
              /\ cand[2] < DRIFT_SWITCH_MIN_HITS =>
                    dec.ret = IF MissingSlots(I, m, st) # <<>> /\ IntentTriggerHits(INTENT_TRIP, m) >= 1
                                  THEN INTENT_TRIP
                              ELSE FirstOtherWithHit(m, I)

\* with the threshold at 2, a turn left an intent that had no hit on the
\* message for an intent with a single hit, through the scan
C34_Witness ==
    /\ DRIFT_SWITCH_MIN_HITS = 2
    /\ last.decided
    /\ last.preIntent \in FiveIntents
    /\ IntentTriggerHits(last.preIntent, last.msg) = 0
    /\ last.how = "scan"
    /\ last.ret \in FiveIntents \ {last.preIntent}
    /\ IntentTriggerHits(last.ret, last.msg) = 1
    /\ BestIntentFromTriggers(last.msg, last.preIntent)[2] = 1


\* the offer the stored session of sid holds
LastOffered(S, sid) == GetState(S, sid).last_offered

\* C35: booking_finalize runs only on a stored offer booking_confirm and
\* leaves the stored session without it, and a stored session comes to hold
\* the offer booking_confirm only in a turn that produces the confirmation
\* summary; so between two runs of booking_finalize a new summary was shown,
\* and a bare affirmative after a finalize does not finalize again.
C35_NoDuplicateFinalize ==
    [][\A sid \in Sids :
          /\ last'.path = "booking_final" =>
                /\ LastOffered(STORE, sid) = "booking_confirm"
                /\ IsShort(last'.msg)
                /\ LastOffered(STORE', sid) # "booking_confirm"
          /\ (LastOffered(STORE, sid) # "booking_confirm"
                 /\ LastOffered(STORE', sid) = "booking_confirm")
                => last'.path = "booking_summary"
          /\ (last.path = "booking_final" /\ IsShort(last'.msg))
                => last'.path # "booking_final"]_vars

\* a booking was finalized (its slots are complete and its offer is closed),
\* and the «ναι» that followed it was answered otherwise
C35_Witness ==
    /\ last.msg = "nai"
    /\ last.path \notin {"booking_final", "None"}
    /\ \E sid \in Sids :
          /\ STORE[sid].present
          /\ FilledRequired(STORE[sid].st.booking_slots) = Len(BOOKING_REQUIRED)
          /\ LastOffered(STORE, sid) = "None"


\* C36: the turn that runs booking_finalize leaves the stored session out of
\* the booking flow (intent not BookingIntent, booking_slots empty), and a
\* message with a booking trigger right after it is answered by booking_start
\* with a prompt for the first missing slot.
C36_FinalizeReturnsToNotStarted ==
    [][\A sid \in Sids :
          /\ last'.path = "booking_final" => OutOfBooking(STORE', sid)
          /\ (last.path = "booking_final" /\ BookingTrigger(last'.msg))
                => /\ last'.path = "booking_prompt"
                   /\ GetState(STORE', sid).intent = BOOKING_INTENT]_vars


\* C37: while the stored booking is collecting origin or destination,
\* maybe_handle_followup_or_booking answers every message that passes
\* is_precise_address (a digit or a point-of-interest keyword): the message is
\* stored in that slot, the other booking slots that were filled are kept, and
\* the session stays in BookingIntent.
C37_PreciseAddressIsCollected ==
    \A sid \in Sids, m \in AllTexts :
        LET st == GetState(STORE, sid)
            ask == NextMissingBookingSlot(st.booking_slots)
            r == MaybeHandleFollowupOrBooking(st, m, "ok")
        IN  (/\ STORE[sid].present
             /\ st.intent = BOOKING_INTENT
             /\ ask \in {"origin", "destination"}
             /\ IsPreciseAddressText(m))
              => /\ r.handled
                 /\ r.st.intent = BOOKING_INTENT
                 /\ r.st.booking_slots[ask] = m
                 /\ \A k \in DOMAIN st.booking_slots :
                       (k # ask /\ Truthy(st.booking_slots[k]))
                           => r.st.booking_slots[k] = st.booking_slots[k]

\* ---------------------------------------------------------------------------
\* MemoryStore and RedisStore under the same calls: get, a change of the
\* session object that was handed out, set, delete
\* ---------------------------------------------------------------------------

\* st.context_turns.append is called while the list is shorter than this
MaxAppends == 2

\* what a caller does to the session object it holds: a key is set in one of
\* the three dicts, a line is appended to the list, or an attribute is assigned
Mutations == {"slots", "pending_trip", "booking_slots", "context_turns", "intent"}

\* the fields of SessionState that are containers: asdict copies them,
\* SessionState(**raw) does not
ContainerFields == {"slots", "pending_trip", "booking_slots", "context_turns"}

\* the session object after the change
Mutated(st, f) ==
    IF f = "slots" THEN [st EXCEPT !.slots.area = "Patra"]
    ELSE IF f = "pending_trip" THEN [st EXCEPT !.pending_trip.origin = "Patra"]
    ELSE IF f = "booking_slots" THEN [st EXCEPT !.booking_slots.name = "Maria"]
    ELSE IF f = "context_turns" THEN [st EXCEPT !.context_turns = Append(@, "U")]
    ELSE [st EXCEPT !.intent = INTENT_TRIP]

\* the dict MemoryStore keeps for the session after the change was made to an
\* object MemoryStore.get built around it: SessionState(**raw) holds the
\* containers of raw themselves, its attributes are its own
RawAfter(raw, st, f) ==
    IF f = "slots" THEN [raw EXCEPT !.slots = st.slots]
    ELSE IF f = "pending_trip" THEN [raw EXCEPT !.pending_trip = st.pending_trip]
    ELSE IF f = "booking_slots" THEN [raw EXCEPT !.booking_slots = st.booking_slots]
    ELSE IF f = "context_turns" THEN [raw EXCEPT !.context_turns = st.context_turns]
    ELSE raw

\* _json.loads(_json.dumps(asdict(st))): the fields hold strings, numbers,
\* lists and dicts with string keys, which come back as they were
JsonRoundTrip(st) == st

\* _get_state(sid) on either store: the stored session is handed out; a
\* missing or expired one is replaced by SessionState(), which is set
GetCall(sid) ==
    /\ STORE' = GetStateStore(StoreGet(STORE, clock, sid), sid)
    /\ REDIS' = GetStateStore(StoreGet(REDIS, clock, sid), sid)
    /\ clock' = IF StoreGet(STORE, clock, sid)[sid].present THEN clock
                ELSE ClockSet(clock, sid)
    /\ held' = [held EXCEPT ![sid] =
                   [has |-> TRUE,
                    memory |-> GetState(StoreGet(STORE, clock, sid), sid),
                    redis |-> JsonRoundTrip(GetState(StoreGet(REDIS, clock, sid), sid)),
                    shared |-> StoreGet(STORE, clock, sid)[sid].present]]
    /\ last' = [NoLast EXCEPT !.path = "get"]
    /\ UNCHANGED <<RESET_ON_NO_MATCH, DRIFT_SWITCH_MIN_HITS, pending, codes, sessions>>

\* the caller changes the object it holds and does not call set
MutateCall(sid, f) ==
    /\ held[sid].has
    /\ f = "context_turns" => Len(held[sid].memory.context_turns) < MaxAppends
    /\ held' = [held EXCEPT ![sid].memory = Mutated(@, f), ![sid].redis = Mutated(@, f)]
    /\ STORE' = IF held[sid].shared
                    THEN [STORE EXCEPT ![sid].st = RawAfter(@, Mutated(held[sid].memory, f), f)]
                    ELSE STORE
    /\ last' = [NoLast EXCEPT !.path = "mutate", !.tool_input = f]
    /\ UNCHANGED <<RESET_ON_NO_MATCH, DRIFT_SWITCH_MIN_HITS, pending, codes, clock, sessions,
                 REDIS>>

\* STORE.set(sid, st) with the object the caller holds: asdict(st) is a copy
HeldSetCall(sid) ==
    /\ held[sid].has
    /\ STORE' = SaveState(STORE, sid, held[sid].memory)
    /\ REDIS' = SaveState(REDIS, sid, JsonRoundTrip(held[sid].redis))
    /\ clock' = ClockSet(clock, sid)
    /\ held' = [held EXCEPT ![sid].shared = FALSE]
    /\ last' = [NoLast EXCEPT !.path = "set"]
    /\ UNCHANGED <<RESET_ON_NO_MATCH, DRIFT_SWITCH_MIN_HITS, pending, codes, sessions>>

\* STORE.delete(sid)
DeleteCall(sid) ==
    /\ STORE' = ClearState(STORE, sid)
    /\ REDIS' = ClearState(REDIS, sid)
    /\ clock' = [clock EXCEPT !.exp[sid] = 0]
    /\ held' = [held EXCEPT ![sid].shared = FALSE]
    /\ last' = [NoLast EXCEPT !.path = "delete"]
    /\ UNCHANGED <<RESET_ON_NO_MATCH, DRIFT_SWITCH_MIN_HITS, pending, codes, sessions>>

NextStores ==
    \/ \E sid \in Sids : GetCall(sid)
    \/ \E sid \in Sids, f \in Mutations : MutateCall(sid, f)
    \/ \E sid \in Sids : HeldSetCall(sid)
    \/ \E sid \in Sids : DeleteCall(sid)

SpecStores == InitBooking /\ [][NextStores]_vars

\* C38: a session object handed out by MemoryStore.get / _get_state is a
\* private copy: changing it without a set changes nothing a later get of the
\* session returns, so after every sequence of get, change, set and delete
\* MemoryStore holds what RedisStore holds.
C38_MemoryStoreBehavesLikeRedis ==
    /\ \A sid \in Sids : STORE[sid] = REDIS[sid]
    /\ \A sid \in Sids : held[sid].has => held[sid].memory = held[sid].redis

\* ---------------------------------------------------------------------------
\* Date hints in a booking
\* ---------------------------------------------------------------------------

\* the messages of a booking with a day named in it
DateMsgs == {"book", "bookroute", "addr", "name", "simera", "avrio", "methavrio"}

NextDates == \E sid \in Sids, m \in DateMsgs : Chat(sid, m)

SpecDates == InitBooking /\ [][NextDates]_vars

\* the replies of booking_collect
CollectReplies == {"booking_prompt", "booking_summary", "ask_phone", "ask_time", "refine_address"}

\* the day the hint of the text names, None for a text without one of the
\* three hints
HintedDay(m) ==
    IF DayAfterHint(m) THEN "today_plus_2"
    ELSE IF TomorrowHint(m) THEN "today_plus_1"
    ELSE IF TodayHint(m) THEN "today"
    ELSE "None"

\* C39: when a booking turn's message has a today, tomorrow or
\* day-after-tomorrow hint, the pickup_date stored by the turn is today,
\* today + 1 day or today + 2 days respectively.
C39_DateHintGivesItsDay ==
    \A sid \in Sids :
        (/\ last.path \in CollectReplies
         /\ last.preIntent = BOOKING_INTENT
         /\ HintedDay(last.msg) # "None"
         /\ STORE[sid].present)
            => STORE[sid].st.booking_slots.pickup_date = HintedDay(last.msg)

====
